---------------------------- MODULE Spec2Model ----------------------------
(***************************************************************************)
(* A model of the sorted-table writer: TableBuilder (table_builder.cc),    *)
(* BlockBuilder (block_builder), FilterBlockBuilder / FilterBlockReader    *)
(* (filter_block.cc) and BloomFilterPolicy (bloom.cc).                     *)
(*                                                                         *)
(* Byte strings.  A short byte string (a key, a filter, an encoded handle) *)
(* is a sequence of bytes 0..255.  A string that may hold a long value (a  *)
(* value, a block buffer, a block payload) is kept run-length encoded: a   *)
(* sequence of runs <<b, n>>, "n copies of byte b", n >= 1.  The encoding  *)
(* is lossless; Flat expands it.                                           *)
(***************************************************************************)
EXTENDS Integers, Sequences, FiniteSets, TLC

VARIABLES rep, file, obs

vars == <<rep, file, obs>>

(***************************************************************************)
(* Bounds of the model.                                                    *)
(***************************************************************************)
\* Add calls accepted while the status is OK (num_entries never exceeds it).
MaxEntries == 3
\* ChangeOptions calls of one run that replace the options by other ones.
MaxChanges == 1

(***************************************************************************)
(* Byte strings and the integer codecs of util/coding.                     *)
(***************************************************************************)
Min(a, b) == IF a < b THEN a ELSE b

Max(a, b) == IF a < b THEN b ELSE a

\* A flat byte string as runs of length 1.
Runs(bytes) == [i \in 1..Len(bytes) |-> <<bytes[i], 1>>]

\* The number of bytes of a run-length encoded string: std::string::size().
RECURSIVE Size(_)
Size(s) == IF s = <<>> THEN 0 ELSE s[1][2] + Size(Tail(s))

\* n copies of byte b.
Fill(b, n) == IF n = 0 THEN <<>> ELSE << <<b, n>> >>

\* The flat bytes of a run-length encoded string.
RECURSIVE Flat(_)
Flat(s) ==
  IF s = <<>> THEN <<>>
  ELSE [i \in 1..s[1][2] |-> s[1][1]] \o Flat(Tail(s))

\* PutVarint32 / PutVarint64: 7 bits per byte, low group first, the high bit
\* set on every byte but the last.
RECURSIVE EncodeVarint(_)
EncodeVarint(v) ==
  IF v < 128 THEN <<v>> ELSE <<(v % 128) + 128>> \o EncodeVarint(v \div 128)

PutVarint32(dst, v) == dst \o EncodeVarint(v)

PutVarint64(dst, v) == dst \o EncodeVarint(v)

\* GetVarint64 on a block handle: <<value, next position>> of the varint at
\* 1-based position p of bytes, <<-1, p>> when it runs past limit (the last
\* readable position) or takes more than ten bytes.  The handles of the
\* tables built here stay far below 2^31.
RECURSIVE GetVarint(_, _, _, _, _)
GetVarint(bytes, p, limit, shift, acc) ==
  IF p > limit \/ shift > 63 THEN <<-1, p>>
  ELSE IF bytes[p] >= 128
       THEN GetVarint(bytes, p + 1, limit, shift + 7,
                      acc + (bytes[p] % 128) * (2 ^ shift))
       ELSE <<acc + bytes[p] * (2 ^ shift), p + 1>>

\* EncodeFixed32 / PutFixed32: four bytes, little-endian.
EncodeFixed32(v) ==
  <<v % 256, (v \div 256) % 256, (v \div 65536) % 256, (v \div 16777216) % 256>>

PutFixed32(dst, v) == dst \o EncodeFixed32(v)

\* DecodeFixed32 of the four bytes that start at 1-based position p.
DecodeFixed32(bytes, p) ==
  bytes[p] + 256 * bytes[p + 1] + 65536 * bytes[p + 2] + 16777216 * bytes[p + 3]

(***************************************************************************)
(* uint32_t arithmetic.  A uint32_t is kept as its four little-endian      *)
(* bytes, so that every operation wraps at 2^32 exactly as in the code.    *)
(***************************************************************************)
U32(n) == EncodeFixed32(n)

U32Add(a, b) ==
  LET t1 == a[1] + b[1]
      t2 == a[2] + b[2] + (t1 \div 256)
      t3 == a[3] + b[3] + (t2 \div 256)
      t4 == a[4] + b[4] + (t3 \div 256)
  IN  <<t1 % 256, t2 % 256, t3 % 256, t4 % 256>>

\* a < b on two uint32_t values.
U32Less(a, b) ==
  \E i \in 1..4 : a[i] < b[i] /\ \A j \in (i + 1)..4 : a[j] = b[j]

\* GetVarint32Ptr: the uint32_t of the varint at 1-based position p of bytes
\* and the position after it; not ok when the varint runs past limit (the
\* last readable position) or takes more than five bytes.  Every group of
\* seven bits is shifted into a uint32_t: the fifth byte keeps its low four
\* bits only.
RECURSIVE GetVarint32(_, _, _, _, _)
GetVarint32(bytes, p, limit, shift, acc) ==
  LET Group(g) == IF shift = 28 THEN <<0, 0, 0, (g % 16) * 16>>
                  ELSE U32(g * (2 ^ shift))
  IN  IF p > limit \/ shift > 28 THEN [ok |-> FALSE, value |-> acc, p |-> p]
      ELSE IF bytes[p] >= 128
      THEN GetVarint32(bytes, p + 1, limit, shift + 7,
                       U32Add(acc, Group(bytes[p] % 128)))
      ELSE [ok |-> TRUE, value |-> U32Add(acc, Group(bytes[p])), p |-> p + 1]

U32Mul(a, b) ==
  LET t1 == a[1] * b[1]
      t2 == a[1] * b[2] + a[2] * b[1] + (t1 \div 256)
      t3 == a[1] * b[3] + a[2] * b[2] + a[3] * b[1] + (t2 \div 256)
      t4 == a[1] * b[4] + a[2] * b[3] + a[3] * b[2] + a[4] * b[1] + (t3 \div 256)
  IN  <<t1 % 256, t2 % 256, t3 % 256, t4 % 256>>

RECURSIVE BitXor(_, _, _)
BitXor(x, y, bits) ==
  IF bits = 0 THEN 0
  ELSE ((x + y) % 2) + 2 * BitXor(x \div 2, y \div 2, bits - 1)

RECURSIVE BitOr(_, _, _)
BitOr(x, y, bits) ==
  IF bits = 0 THEN 0
  ELSE Max(x % 2, y % 2) + 2 * BitOr(x \div 2, y \div 2, bits - 1)

U32Xor(a, b) == [i \in 1..4 |-> BitXor(a[i], b[i], 8)]

\* h >> 16 and h >> 24.
U32Shr16(a) == <<a[3], a[4], 0, 0>>

U32Shr24(a) == <<a[4], 0, 0, 0>>

\* (h >> 17) | (h << 15)
RotateRight17(h) ==
  LET hi == h[4] * 256 + h[3]
      lo == h[2] * 256 + h[1]
      nhi == (hi % 2) * 32768 + (lo \div 2)
      nlo == (lo % 2) * 32768 + (hi \div 2)
  IN  <<nlo % 256, nlo \div 256, nhi % 256, nhi \div 256>>

\* h % m for 0 < m < 2^20.
U32Mod(h, m) == ((((((h[4] % m) * 256 + h[3]) % m) * 256 + h[2]) % m) * 256 + h[1]) % m

(***************************************************************************)
(* util/hash.cc: Hash(data, n, seed).                                      *)
(***************************************************************************)
HashM == <<147, 167, 164, 198>>     \* m = 0xc6a4a793

\* h *= m; h ^= (h >> r), r = 24: the last step of the switch.
HashMixTail(h) == U32Xor(U32Mul(h, HashM), U32Shr24(U32Mul(h, HashM)))

\* The switch over the 0..3 bytes left at position p, with its fall-through.
HashTail(data, p, h) ==
  LET rest == Len(data) - p + 1 IN
  CASE rest = 3 ->
         HashMixTail(U32Add(U32Add(U32Add(h, <<0, 0, data[p + 2], 0>>),
                                   <<0, data[p + 1], 0, 0>>),
                            <<data[p], 0, 0, 0>>))
    [] rest = 2 ->
         HashMixTail(U32Add(U32Add(h, <<0, data[p + 1], 0, 0>>),
                            <<data[p], 0, 0, 0>>))
    [] rest = 1 -> HashMixTail(U32Add(h, <<data[p], 0, 0, 0>>))
    [] OTHER -> h

\* h += w; h *= m; h ^= (h >> 16)
HashMixWord(h, w) ==
  U32Xor(U32Mul(U32Add(h, w), HashM), U32Shr16(U32Mul(U32Add(h, w), HashM)))

\* The loop over whole 4-byte words from position p, then the tail.
RECURSIVE HashWords(_, _, _)
HashWords(data, p, h) ==
  IF p + 3 > Len(data) THEN HashTail(data, p, h)
  ELSE HashWords(data, p + 4,
                 HashMixWord(h, <<data[p], data[p + 1], data[p + 2], data[p + 3]>>))

Hash(data, seed) ==
  HashWords(data, 1, U32Xor(seed, U32Mul(U32(Len(data)), HashM)))

(***************************************************************************)
(* util/bloom.cc: BloomFilterPolicy.  A policy is [null, bits_per_key,     *)
(* k_].  bits_per_key is the constructor's int argument; the member        *)
(* bits_per_key_ is a size_t, so a negative argument is stored as          *)
(* 2^64 + bits_per_key.  A size_t within 2^31 of 0 or of 2^64 is kept as   *)
(* the integer nearest 0 that is congruent to it modulo 2^64: an integer   *)
(* m >= 0 stands for m, and -m < 0 for 2^64 - m.                           *)
(***************************************************************************)
\* BloomHash: Hash with the seed 0xbc9f1d34.
BloomHash(key) == Hash(key, <<52, 29, 159, 188>>)

\* The values the constructor can leave in k_: bits_per_key * 0.69 with its
\* fraction discarded, converted to size_t, then clamped to 1..30.  For
\* bits_per_key <= -2 the product is -1 or less, which no size_t holds, and
\* the conversion is undefined: a build that converts as it does to a
\* signed 64-bit integer gets 2^64 - m, clamped to 30, and a build whose
\* conversion saturates gets 0, clamped to 1.
BloomK(bits_per_key) ==
  IF bits_per_key >= -1
  THEN { Max(1, Min(30, (Max(0, bits_per_key) * 69) \div 100)) }
  ELSE { 1, 30 }

\* The probe sequence h, h + delta, h + 2 delta, ...: the bit positions of
\* k probes of key in a filter of `bits` bits.
RECURSIVE Probes(_, _, _, _)
Probes(h, delta, bits, k) ==
  IF k = 0 THEN <<>>
  ELSE <<U32Mod(h, bits)>> \o Probes(U32Add(h, delta), delta, bits, k - 1)

KeyProbes(key, bits, k) ==
  LET h == BloomHash(key) IN Probes(h, RotateRight17(h), bits, k)

\* array[bitpos/8] |= (1 << (bitpos % 8)) for every position of `probes`.
\* The test on array makes TLC evaluate the array of each step before the
\* next step, which keeps the evaluation shallow; an array is never empty.
RECURSIVE SetBits(_, _)
SetBits(array, probes) ==
  IF probes = <<>> \/ array = <<>> THEN array
  ELSE LET bitpos == probes[1]
           i == (bitpos \div 8) + 1
       IN  SetBits([array EXCEPT ![i] = BitOr(array[i], 2 ^ (bitpos % 8), 8)],
                   Tail(probes))

RECURSIVE SetKeys(_, _, _, _)
SetKeys(array, keys, bits, k) ==
  IF keys = <<>> THEN array
  ELSE SetKeys(SetBits(array, KeyProbes(keys[1], bits, k)), Tail(keys), bits, k)

\* bytes = (bits + 7) / 8, the number of filter bytes without the trailing
\* k, for n keys.  bits = n * bits_per_key_ is a size_t product, taken
\* modulo 2^64: with a negative bits_per_key and n >= 1 it is 2^64 - m, which
\* is not below 64, and bits + 7 wraps around to 7 - m when m <= 7.  For
\* m > 7 the quotient is 2^61 - 1 or just below it; -1 stands for that.
BloomBytes(n, bits_per_key) ==
  LET product == n * bits_per_key
      bits    == IF 0 <= product /\ product < 64 THEN 64 ELSE product
  IN  IF bits + 7 < 0 THEN -1 ELSE (bits + 7) \div 8

\* Seeded fault: the bit array starts at the head of dst, not at init_size.
CreateFilter_FromHead(policy, keys, dst) ==
  LET n     == Len(keys)
      bytes == BloomBytes(n, policy.bits_per_key)
      bits  == bytes * 8
      k     == policy.k_
  IN  IF bytes < 0 THEN [dst |-> dst, fault |-> "throws"]
      ELSE IF bits = 0 THEN [dst |-> dst \o <<k>>, fault |-> "undefined"]
      ELSE [dst  |-> SetKeys(dst \o [i \in 1..bytes |-> 0], keys, bits, k)
                       \o <<k>>,
            fault |-> "none"]

\* Seeded fault: CreateFilter assigns the filter to dst, not appends it.
CreateFilter_Assigning(policy, keys, dst) ==
  LET n     == Len(keys)
      bytes == BloomBytes(n, policy.bits_per_key)
      bits  == bytes * 8
      k     == policy.k_
  IN  IF bytes < 0 THEN [dst |-> dst, fault |-> "throws"]
      ELSE IF bits = 0 THEN [dst |-> dst \o <<k>>, fault |-> "undefined"]
      ELSE [dst  |-> SetKeys([i \in 1..bytes |-> 0], keys, bits, k) \o <<k>>,
            fault |-> "none"]

\* CreateFilter(keys, n, dst): what dst holds when the call ends, and the
\* fault that ended it.  "none": the filter and k_ were appended to dst and
\* the call returned.  "throws": bytes is about 2^61 and
\* dst->resize(init_size + bytes) throws (std::length_error or
\* std::bad_alloc) with dst as it was.  "undefined": bits + 7 wrapped around,
\* so bytes = 0 and bits = 0; resize adds nothing, k_ is pushed, and the
\* first probe of the first key computes h % 0, a division by zero (there
\* is a key, since n * bits_per_key_ wrapped, and k_ >= 1).  With a fault the
\* call does not return, and nothing is said of what follows.
CreateFilter(policy, keys, dst) ==
  LET n     == Len(keys)
      bytes == BloomBytes(n, policy.bits_per_key)
      bits  == bytes * 8
      k     == policy.k_
  IN  IF bytes < 0 THEN [dst |-> dst, fault |-> "throws"]
      ELSE IF bits = 0 THEN [dst |-> dst \o <<k>>, fault |-> "undefined"]
      ELSE [dst  |-> dst \o SetKeys([i \in 1..bytes |-> 0], keys, bits, k)
                       \o <<k>>,
            fault |-> "none"]

\* (array[bitpos/8] & (1 << (bitpos % 8))) != 0 for every probe.
AllBitsSet(array, probes) ==
  \A j \in 1..Len(probes) :
     (array[(probes[j] \div 8) + 1] \div (2 ^ (probes[j] % 8))) % 2 = 1

\* BloomFilterPolicy::KeyMayMatch(key, bloom_filter)
Bloom_KeyMayMatch(key, bloom_filter) ==
  LET len == Len(bloom_filter) IN
  IF len < 2 THEN FALSE
  ELSE LET bits == (len - 1) * 8
           k    == bloom_filter[len]
       IN  IF k > 30 THEN TRUE
           ELSE AllBitsSet(bloom_filter, KeyProbes(key, bits, k))


(***************************************************************************)
(* The bytewise comparator (the default Options::comparator).              *)
(***************************************************************************)
\* The length of the longest common prefix of a and b.
RECURSIVE CommonPrefix(_, _, _)
CommonPrefix(a, b, i) ==
  IF i < Min(Len(a), Len(b)) /\ a[i + 1] = b[i + 1]
  THEN CommonPrefix(a, b, i + 1)
  ELSE i

\* Compare(a, b): memcmp over the common length, then the shorter first.
Compare(a, b) ==
  LET i == CommonPrefix(a, b, 0) IN
  IF i < Min(Len(a), Len(b))
  THEN (IF a[i + 1] < b[i + 1] THEN -1 ELSE 1)
  ELSE IF Len(a) < Len(b) THEN -1
       ELSE IF Len(a) > Len(b) THEN 1 ELSE 0

\* FindShortestSeparator(&start, limit): the new value of start.
FindShortestSeparator(start, limit) ==
  LET min_length == Min(Len(start), Len(limit))
      diff_index == CommonPrefix(start, limit, 0)
  IN  IF diff_index >= min_length THEN start
      ELSE LET diff_byte == start[diff_index + 1] IN
           IF diff_byte < 255 /\ diff_byte + 1 < limit[diff_index + 1]
           THEN SubSeq(start, 1, diff_index) \o <<diff_byte + 1>>
           ELSE start

\* FindShortSuccessor(&key): the new value of key.
RECURSIVE FindShortSuccessorFrom(_, _)
FindShortSuccessorFrom(key, i) ==
  IF i > Len(key) THEN key
  ELSE IF key[i] # 255 THEN SubSeq(key, 1, i - 1) \o <<key[i] + 1>>
       ELSE FindShortSuccessorFrom(key, i + 1)

FindShortSuccessor(key) == FindShortSuccessorFrom(key, 1)

(***************************************************************************)
(* BlockBuilder.  A builder is [buffer_, restarts_, counter_, finished_,   *)
(* last_key_]; the Options it points to are passed to each operation.      *)
(***************************************************************************)
NewBlockBuilder ==
  [buffer_ |-> <<>>, restarts_ |-> <<0>>, counter_ |-> 0,
   finished_ |-> FALSE, last_key_ |-> <<>>]

BlockBuilder_Reset(b) == NewBlockBuilder

BlockBuilder_empty(b) == b.buffer_ = <<>>

BlockBuilder_CurrentSizeEstimate(b) ==
  Size(b.buffer_) + Len(b.restarts_) * 4 + 4

\* The restart array followed by its length, as fixed32s.
RECURSIVE RestartArray(_)
RestartArray(restarts) ==
  IF restarts = <<>> THEN <<>>
  ELSE EncodeFixed32(restarts[1]) \o RestartArray(Tail(restarts))

\* Finish(): the builder afterwards; the slice returned is its buffer_.
BlockBuilder_Finish(b) ==
  [b EXCEPT !.buffer_ = @ \o Runs(RestartArray(b.restarts_)
                                    \o EncodeFixed32(Len(b.restarts_))),
            !.finished_ = TRUE]

\* The second assertion at the head of Add.
BlockBuilder_CounterAssert(b, options) ==
  b.counter_ <= options.block_restart_interval

\* The three assertions at the head of Add.
BlockBuilder_AddAsserts(b, options, key) ==
  /\ ~b.finished_
  /\ b.counter_ <= options.block_restart_interval
  /\ (b.buffer_ = <<>> \/ Compare(key, b.last_key_) > 0)

\* Seeded fault: the prefix is shared at a restart point too.
BlockBuilder_Shared_Always(b, options, key) ==
  CommonPrefix(b.last_key_, key, 0)

\* The number of bytes the entry for key shares with the previous key.
BlockBuilder_Shared(b, options, key) ==
  IF b.counter_ < options.block_restart_interval
  THEN CommonPrefix(b.last_key_, key, 0)
  ELSE 0

\* Add(key, value): key a flat byte string, value run-length encoded.
BlockBuilder_Add(b, options, key, value) ==
  LET restart    == ~(b.counter_ < options.block_restart_interval)
      shared     == BlockBuilder_Shared(b, options, key)
      non_shared == Len(key) - shared
      header     == PutVarint32(PutVarint32(PutVarint32(<<>>, shared), non_shared),
                                Size(value))
      delta      == SubSeq(key, shared + 1, Len(key))
  IN  [buffer_   |-> b.buffer_ \o Runs(header \o delta) \o value,
       restarts_ |-> IF restart THEN Append(b.restarts_, Size(b.buffer_))
                     ELSE b.restarts_,
       counter_  |-> (IF restart THEN 0 ELSE b.counter_) + 1,
       finished_ |-> b.finished_,
       last_key_ |-> SubSeq(b.last_key_, 1, shared) \o delta]

(***************************************************************************)
(* The reader's side of a block: DecodeEntry and the iterator's            *)
(* ParseNextKey, over the flat bytes of an uncompressed block.  Positions  *)
(* are byte offsets from the start of the block, as in the code.           *)
(***************************************************************************)
\* DecodeEntry returned NULL.
NullEntry ==
  [ok |-> FALSE, shared |-> U32(0), non_shared |-> U32(0),
   value_length |-> U32(0), p |-> 0, wrapped |-> FALSE]

\* The end of DecodeEntry: the key delta and the value fit before limit,
\* where the three lengths are uint32_t and their sum is taken in uint32_t.
\* wrapped tells that the sum passed 2^32: the entry is returned although
\* it does not fit.
EntryAt(shared, non_shared, value_length, p, limit) ==
  IF U32Less(U32(limit - p), U32Add(non_shared, value_length)) THEN NullEntry
  ELSE [ok |-> TRUE, shared |-> shared, non_shared |-> non_shared,
        value_length |-> value_length, p |-> p,
        wrapped |-> U32Less(U32Add(non_shared, value_length), non_shared)]

\* DecodeEntry when one of the three lengths takes more than one byte.
DecodeEntrySlow(data, p, limit) ==
  LET a == GetVarint32(data, p + 1, limit, 0, U32(0)) IN
  IF ~a.ok THEN NullEntry
  ELSE LET b == GetVarint32(data, a.p, limit, 0, U32(0)) IN
       IF ~b.ok THEN NullEntry
       ELSE LET c == GetVarint32(data, b.p, limit, 0, U32(0)) IN
            IF ~c.ok THEN NullEntry
            ELSE EntryAt(a.value, b.value, c.value, c.p - 1, limit)

\* DecodeEntry(p, limit, &shared, &non_shared, &value_length)
DecodeEntry(data, p, limit) ==
  IF limit - p < 3 THEN NullEntry
  ELSE IF data[p + 1] < 128 /\ data[p + 2] < 128 /\ data[p + 3] < 128
  THEN EntryAt(U32(data[p + 1]), U32(data[p + 2]), U32(data[p + 3]), p + 3, limit)
  ELSE DecodeEntrySlow(data, p, limit)

\* Seeded fault: the iterator drops the shared prefix of the previous key.
ParsedKey_NoShared(data, key, e) ==
  [key |-> SubSeq(data, e.p + 1, e.p + DecodeFixed32(e.non_shared, 1)),
   value |-> SubSeq(data, e.p + DecodeFixed32(e.non_shared, 1) + 1,
                    e.p + DecodeFixed32(e.non_shared, 1)
                        + DecodeFixed32(e.value_length, 1)),
   next |-> e.p + DecodeFixed32(e.non_shared, 1)
                + DecodeFixed32(e.value_length, 1)]

\* The iterator after ParseNextKey succeeded on an entry e that lies within
\* the block: key_, value_ and the offset of the next entry.
ParsedKey(data, key, e) ==
  [key |-> SubSeq(key, 1, DecodeFixed32(e.shared, 1))
             \o SubSeq(data, e.p + 1, e.p + DecodeFixed32(e.non_shared, 1)),
   value |-> SubSeq(data, e.p + DecodeFixed32(e.non_shared, 1) + 1,
                    e.p + DecodeFixed32(e.non_shared, 1)
                        + DecodeFixed32(e.value_length, 1)),
   next |-> e.p + DecodeFixed32(e.non_shared, 1)
                + DecodeFixed32(e.value_length, 1)]

\* ParseNextKey, called until it returns false: the <<key, value>> pairs an
\* iteration from offset p yields, with a corruption marking the end of a
\* block that does not parse.  An entry whose lengths wrapped passes
\* DecodeEntry and the test on shared: key_.append(p, non_shared) or a read
\* of value_ then reaches past the block, which is undefined behaviour.  The
\* iteration ends there with overrun, and nothing is said about what the
\* program does from that point on (it is never the corruption status).
RECURSIVE ParseKeys(_, _, _, _)
ParseKeys(data, p, limit, key) ==
  IF p >= limit THEN <<>>
  ELSE LET e == DecodeEntry(data, p, limit) IN
       IF ~e.ok \/ U32Less(U32(Len(key)), e.shared)
       THEN << [key |-> <<>>, value |-> <<>>, corruption |-> TRUE,
                overrun |-> FALSE] >>
       ELSE IF e.wrapped
       THEN << [key |-> <<>>, value |-> <<>>, corruption |-> FALSE,
                overrun |-> TRUE] >>
       ELSE LET it == ParsedKey(data, key, e) IN
            << [key |-> it.key, value |-> it.value, corruption |-> FALSE,
                overrun |-> FALSE] >>
            \o ParseKeys(data, it.next, limit, it.key)

\* Where each entry that ParseNextKey accepts between p and limit begins and
\* how many bytes of its key it shares with the entry before, whose key has
\* size bytes.  The list ends where ParseNextKey stops: at limit, or at a
\* corruption (DecodeEntry fails or shared exceeds the size of the key
\* before).  An entry whose lengths wrapped is accepted: key_.append(p,
\* non_shared) reads on behind limit, into the restart array, value_ is only
\* a pointer and a length, and NextEntryOffset() returns the end of value_
\* as a uint32_t, which is p plus the wrapped sum.  When the non_shared
\* bytes reach beyond the end of data the read of append is undefined (the
\* entry is accepted with whatever lies behind data, or the process ends in
\* append): the list ends with that entry marked overrun, and nothing is
\* said of what follows it.
RECURSIVE EntryHeaders(_, _, _, _)
EntryHeaders(data, p, limit, size) ==
  IF p >= limit THEN <<>>
  ELSE LET e == DecodeEntry(data, p, limit) IN
       IF ~e.ok \/ U32Less(U32(size), e.shared)
       THEN <<>>
       ELSE IF U32Less(U32(Len(data) - e.p), e.non_shared)
       THEN << [offset |-> p, shared |-> DecodeFixed32(e.shared, 1),
                overrun |-> TRUE] >>
       ELSE << [offset |-> p, shared |-> DecodeFixed32(e.shared, 1),
                overrun |-> FALSE] >>
            \o EntryHeaders(data,
                            e.p + DecodeFixed32(U32Add(e.non_shared,
                                                       e.value_length), 1),
                            limit,
                            DecodeFixed32(e.shared, 1)
                              + DecodeFixed32(e.non_shared, 1))

\* NumRestarts(): the last fixed32 of the block.
NumRestarts(data) == DecodeFixed32(data, Len(data) - 4 + 1)

\* The offset of the restart array: where the entries end.
RestartOffset(data) == Len(data) - (1 + NumRestarts(data)) * 4

\* The entries an iteration over a whole block yields.
BlockEntries(data) == ParseKeys(data, 0, RestartOffset(data), <<>>)

(***************************************************************************)
(* table/format: BlockHandle and Footer.                                   *)
(***************************************************************************)
kBlockTrailerSize == 5

kFooterEncodedLength == 48

\* A handle that was never set: offset_ and size_ are ~0.
UnsetHandle == [offset |-> -1, size |-> -1]

BlockHandle_EncodeTo(dst, h) == PutVarint64(PutVarint64(dst, h.offset), h.size)

\* BlockHandle::DecodeFrom: two varints, the offset and the size.
BlockHandle_DecodeFrom(input) ==
  [offset |-> GetVarint(input, 1, Len(input), 0, 0)[1],
   size |-> GetVarint(input, GetVarint(input, 1, Len(input), 0, 0)[2],
                      Len(input), 0, 0)[1]]

kTableMagicNumber == <<87, 251, 128, 139, 36, 117, 71, 219>>

Footer_EncodeTo(metaindex_handle, index_handle) ==
  LET handles == BlockHandle_EncodeTo(BlockHandle_EncodeTo(<<>>, metaindex_handle),
                                      index_handle)
  IN  handles \o [i \in 1..(40 - Len(handles)) |-> 0] \o kTableMagicNumber

(***************************************************************************)
(* FilterBlockBuilder.  A builder is [policy_, keys_, start_, result_,     *)
(* filter_offsets_, fault]; tmp_keys_ lives only inside GenerateFilter.    *)
(* fault is "none" until a CreateFilter call ends with a fault, which      *)
(* leaves GenerateFilter and its callers at that point.                    *)
(***************************************************************************)
kFilterBaseLg == 11

kFilterBase == 2 ^ kFilterBaseLg

NewFilterBlockBuilder(policy) ==
  [policy_ |-> policy, keys_ |-> <<>>, start_ |-> <<>>, result_ |-> <<>>,
   filter_offsets_ |-> <<>>, fault |-> "none"]

\* Seeded fault: GenerateFilter keeps the keys it has made a filter of.
GenerateFilter_KeepKeys(fb) ==
  LET num_keys == Len(fb.start_) IN
  IF num_keys = 0
  THEN [fb EXCEPT !.filter_offsets_ = Append(@, Len(fb.result_))]
  ELSE LET start    == Append(fb.start_, Len(fb.keys_))
           tmp_keys == [i \in 1..num_keys |->
                          SubSeq(fb.keys_, start[i] + 1, start[i + 1])]
           created  == CreateFilter(fb.policy_, tmp_keys, fb.result_)
       IN  IF created.fault # "none"
           THEN [fb EXCEPT !.start_ = start,
                           !.filter_offsets_ = Append(@, Len(fb.result_)),
                           !.result_ = created.dst,
                           !.fault = created.fault]
           ELSE [fb EXCEPT !.filter_offsets_ = Append(@, Len(fb.result_)),
                           !.result_ = created.dst]

\* Seeded fault: GenerateFilter without the fast path for no keys.
GenerateFilter_NoFastPath(fb) ==
  LET num_keys == Len(fb.start_)
      start    == Append(fb.start_, Len(fb.keys_))
      tmp_keys == [i \in 1..num_keys |->
                     SubSeq(fb.keys_, start[i] + 1, start[i + 1])]
      created  == CreateFilter(fb.policy_, tmp_keys, fb.result_)
  IN  IF created.fault # "none"
      THEN [fb EXCEPT !.start_ = start,
                      !.filter_offsets_ = Append(@, Len(fb.result_)),
                      !.result_ = created.dst,
                      !.fault = created.fault]
      ELSE [fb EXCEPT !.filter_offsets_ = Append(@, Len(fb.result_)),
                      !.result_ = created.dst,
                      !.keys_ = <<>>,
                      !.start_ = <<>>]

GenerateFilter(fb) ==
  LET num_keys == Len(fb.start_) IN
  IF num_keys = 0
  THEN [fb EXCEPT !.filter_offsets_ = Append(@, Len(fb.result_))]
  ELSE LET start    == Append(fb.start_, Len(fb.keys_))
           tmp_keys == [i \in 1..num_keys |->
                          SubSeq(fb.keys_, start[i] + 1, start[i + 1])]
           created  == CreateFilter(fb.policy_, tmp_keys, fb.result_)
       IN  IF created.fault # "none"
           THEN [fb EXCEPT !.start_ = start,
                           !.filter_offsets_ = Append(@, Len(fb.result_)),
                           !.result_ = created.dst,
                           !.fault = created.fault]
           ELSE [fb EXCEPT !.filter_offsets_ = Append(@, Len(fb.result_)),
                           !.result_ = created.dst,
                           !.keys_ = <<>>,
                           !.start_ = <<>>]

\* Seeded fault: the filter index rounded up.
FilterIndex_RoundedUp(block_offset) ==
  (block_offset + kFilterBase - 1) \div kFilterBase

\* The filter index StartBlock computes from a block offset.
FilterIndex(block_offset) == block_offset \div kFilterBase

\* The assertion of StartBlock.
StartBlockAsserts(fb, block_offset) ==
  FilterIndex(block_offset) >= Len(fb.filter_offsets_)

\* Seeded fault: StartBlock's while loop as an if.
GenerateUpTo_Once(fb, filter_index) ==
  IF fb.fault = "none" /\ filter_index > Len(fb.filter_offsets_)
  THEN GenerateFilter(fb)
  ELSE fb

RECURSIVE GenerateUpTo(_, _)
GenerateUpTo(fb, filter_index) ==
  IF fb.fault = "none" /\ filter_index > Len(fb.filter_offsets_)
  THEN GenerateUpTo(GenerateFilter(fb), filter_index)
  ELSE fb

StartBlock(fb, block_offset) == GenerateUpTo(fb, FilterIndex(block_offset))

\* Seeded fault: AddKey without start_.push_back(keys_.size()).
AddKey_NoStart(fb, key) == [fb EXCEPT !.keys_ = @ \o key]

AddKey(fb, key) ==
  [fb EXCEPT !.start_ = Append(@, Len(fb.keys_)), !.keys_ = @ \o key]

RECURSIVE OffsetArray(_)
OffsetArray(offsets) ==
  IF offsets = <<>> THEN <<>>
  ELSE EncodeFixed32(offsets[1]) \o OffsetArray(Tail(offsets))

\* The tail of Finish, after the last filter was generated: the offset
\* array, its start, and the base.
AppendOffsetArray(fb) ==
  IF fb.fault # "none" THEN fb
  ELSE [fb EXCEPT !.result_ =
                     PutFixed32(fb.result_ \o OffsetArray(fb.filter_offsets_),
                                Len(fb.result_))
                       \o <<kFilterBaseLg>>]

\* Finish(): the builder afterwards; the slice returned is its result_.
FilterBlockBuilder_Finish(fb) ==
  AppendOffsetArray(IF fb.start_ # <<>> THEN GenerateFilter(fb) ELSE fb)

(***************************************************************************)
(* FilterBlockReader.  data_ = NULL is has_data = FALSE; offset_ is kept   *)
(* as the byte index offset_ - data_.  base_lg_ is a size_t assigned from  *)
(* a char, which is signed here: a last byte b >= 128 is sign-extended to  *)
(* 2^64 - 256 + b, kept as the negative number b - 256.                    *)
(***************************************************************************)
FilterBlockReader(policy, contents) ==
  LET n == Len(contents)
      empty == [policy_ |-> policy, contents |-> contents, has_data |-> FALSE,
                offset_ |-> 0, num_ |-> 0, base_lg_ |-> 0]
  IN  IF n < 5 THEN empty
      ELSE LET last_word == DecodeFixed32(contents, n - 5 + 1)
               base_lg == IF contents[n] >= 128 THEN contents[n] - 256
                          ELSE contents[n]
           IN
           IF last_word > n - 5
           THEN [empty EXCEPT !.base_lg_ = base_lg]
           ELSE [policy_ |-> policy, contents |-> contents, has_data |-> TRUE,
                 offset_ |-> last_word, num_ |-> (n - 5 - last_word) \div 4,
                 base_lg_ |-> base_lg]

\* block_offset >> base_lg_ on a uint64_t, for block offsets below 2^31: the
\* set of values the shift can give.  A shift count of 64 or more (base_lg_
\* negative stands for 2^64 + base_lg_) is undefined: the processor shifts by
\* the count modulo 64, a shift the compiler evaluates gives 0.
ShiftRight(x, lg) ==
  LET Shifted(k) == IF k >= 31 THEN 0 ELSE x \div (2 ^ k)
  IN  IF 0 <= lg /\ lg < 64 THEN { Shifted(lg) }
      ELSE { Shifted(lg % 64), 0 }

\* Seeded fault: every filter whose bounds fail the test matches nothing.
FilterMayMatch_NoMatchOnError(reader, index, key) ==
  IF index < reader.num_
  THEN LET start == DecodeFixed32(reader.contents, reader.offset_ + index * 4 + 1)
           limit == DecodeFixed32(reader.contents, reader.offset_ + index * 4 + 4 + 1)
       IN  IF start <= limit /\ limit <= reader.offset_
           THEN Bloom_KeyMayMatch(key, SubSeq(reader.contents, start + 1, limit))
           ELSE FALSE
  ELSE TRUE

\* KeyMayMatch from the test on index on: what it returns for an index.
FilterMayMatch(reader, index, key) ==
  IF index < reader.num_
  THEN LET start == DecodeFixed32(reader.contents, reader.offset_ + index * 4 + 1)
           limit == DecodeFixed32(reader.contents, reader.offset_ + index * 4 + 4 + 1)
       IN  IF start <= limit /\ limit <= reader.offset_
           THEN Bloom_KeyMayMatch(key, SubSeq(reader.contents, start + 1, limit))
           ELSE IF start = limit THEN FALSE ELSE TRUE
  ELSE TRUE

\* KeyMayMatch(block_offset, key): the index it computes and the value it
\* returns, one outcome for each value the shift can give.
Reader_KeyMayMatch(reader, block_offset, key) ==
  { [index |-> index, result |-> FilterMayMatch(reader, index, key)] :
      index \in ShiftRight(block_offset, reader.base_lg_) }


(***************************************************************************)
(* Inputs of the model: options, keys, values, and the behaviour of the    *)
(* environment (the file sink and the compressor).                         *)
(***************************************************************************)
NoPolicy == [null |-> TRUE, bits_per_key |-> 0, k_ |-> 0]

\* NewBloomFilterPolicy(10)
BloomPolicy ==
  [null |-> FALSE, bits_per_key |-> 10, k_ |-> CHOOSE k \in BloomK(10) : TRUE]

\* "filter." followed by BloomFilterPolicy::Name(),
\* "leveldb.BuiltinBloomFilter2".
FilterMetaKey ==
  <<102, 105, 108, 116, 101, 114, 46, 108, 101, 118, 101, 108, 100, 98,
     46, 66, 117, 105, 108, 116, 105, 110, 66, 108, 111, 111, 109, 70, 105,
     108, 116, 101, 114, 50>>

MakeOptions(block_size, interval, compression, policy) ==
  [comparator |-> "bytewise", block_size |-> block_size,
   block_restart_interval |-> interval, compression |-> compression,
   filter_policy |-> policy]

\* The options a builder is constructed with or changed to.  The first is
\* the default Options() but for its filter policy.
OptionsSet ==
  { MakeOptions(4096, 16, "kSnappyCompression", BloomPolicy),
    MakeOptions(4096, 16, "kNoCompression", NoPolicy),
    MakeOptions(14, 1, "kNoCompression", BloomPolicy) }

\* The options ChangeOptions may be called with: those above, and one with
\* another comparator.
ChangeSet ==
  OptionsSet \cup
  { [MakeOptions(4096, 16, "kNoCompression", NoPolicy)
       EXCEPT !.comparator = "reverse"] }

\* Keys, as byte strings.
Keys == { <<97>>, <<97, 98>>, <<97, 98, 99>>, <<255>> }

\* Values, run-length encoded: one byte, and one long enough to carry a block
\* across two filter windows.
Values == { Fill(118, 1), Fill(118, 5000) }

\* The sink calls one handler makes: at most three by Add and Flush (the
\* payload, the trailer, the sink flush), at most ten by Finish (three for the
\* data block, two each for the filter, meta-index and index blocks, one for
\* the footer).
SinkCalls(handler) == IF handler = "Finish" THEN 1..10 ELSE 1..3

\* What port::Snappy_Compress does with a block: nothing (not compiled in),
\* halve it, or shrink it to exactly raw - raw/8 bytes.
SnappyModes == { "unsupported", "half", "edge" }

\* The environment of one handler: failAt = i makes the i-th sink call of the
\* handler fail, failAt = 0 makes none fail.
NoFailure == [failAt |-> 0, snappy |-> "unsupported"]

\* The compressor is only called when the options ask for compression.
Envs(handler) ==
  { [NoFailure EXCEPT !.snappy = m] :
      m \in IF rep.options.compression = "kSnappyCompression"
             THEN SnappyModes ELSE {"unsupported"} } \cup
  [failAt : SinkCalls(handler), snappy : {"unsupported"}]

Snappy_Compress(mode, raw) ==
  IF mode = "unsupported" THEN [ok |-> FALSE, out |-> <<>>]
  ELSE IF mode = "half" THEN [ok |-> TRUE, out |-> Fill(0, Size(raw) \div 2)]
  ELSE [ok |-> TRUE, out |-> Fill(0, Size(raw) - Size(raw) \div 8)]

(***************************************************************************)
(* The state a handler works on: s.r is the Rep, s.file the sink, s.obs    *)
(* the record of what the run did, s.env the environment's behaviour during*)
(* this handler, s.calls the sink calls made so far by it, s.ret the status*)
(* the last sink call returned, s.local the handler's local variables,     *)
(* s.entry the builder's status when the handler was entered.              *)
(* Handlers are written as compositions of steps, each step an operator on *)
(* such a state.                                                           *)
(***************************************************************************)
\* A block handed to WriteRawBlock as it is.
Uncompressed(raw) ==
  [raw |-> raw, compression |-> "kNoCompression",
   compressed |-> [ok |-> FALSE, out |-> <<>>]]

NoLocals ==
  [filter |-> UnsetHandle, metaindex |-> UnsetHandle, index |-> UnsetHandle,
   meta_index_block |-> NewBlockBuilder, write |-> Uncompressed(<<>>)]

\* No call has returned a status: the last call was none or a void one.
NoReturn == [op |-> "none", status |-> "none", entry |-> "none"]

Enter(env) ==
  [r |-> rep, file |-> file, obs |-> [obs EXCEPT !.returned = NoReturn],
   env |-> env, calls |-> 0, ret |-> "OK", local |-> NoLocals,
   entry |-> rep.status]

\* assert(cond); `what` names the assertion.
Check(s, cond, what) ==
  IF cond THEN s ELSE [s EXCEPT !.obs.failed = @ \cup {what}]

\* TableBuilder::ok()
ok(s) == s.r.status = "OK"

\* The status of the i-th sink call of a handler: a failing Append returns
\* an IOError, a failing Flush a Corruption (two codes, to tell them apart).
SinkStatus(s, op) ==
  IF s.env.failAt = s.calls + 1
  THEN (IF op = "Append" THEN "IOError" ELSE "Corruption")
  ELSE "OK"

\* The bytes an Append adds to the file: all of data, or none when it fails.
Appended(status, data) == IF status = "OK" THEN Size(data) ELSE 0

\* WritableFile::Append(data)
File_Append(s, data, what) ==
  [s EXCEPT !.calls = @ + 1,
            !.ret = SinkStatus(s, "Append"),
            !.file.size = @ + Appended(SinkStatus(s, "Append"), data),
            !.file.log = Append(@, [op |-> "Append", what |-> what,
                                     n |-> Size(data),
                                     ok |-> SinkStatus(s, "Append") = "OK"])]

\* WritableFile::Flush()
File_Flush(s) ==
  [s EXCEPT !.calls = @ + 1,
            !.ret = SinkStatus(s, "Flush"),
            !.file.log = Append(@, [op |-> "Flush", what |-> "flush",
                                     n |-> 0,
                                     ok |-> SinkStatus(s, "Flush") = "OK"])]

\* r->status = <the status the sink call returned>
SetStatus(s) == [s EXCEPT !.r.status = s.ret]

(***************************************************************************)
(* TableBuilder                                                            *)
(***************************************************************************)
\* Rep::Rep
\* Seeded fault: the index block is built with the table's restart interval.
NewRep_IndexInterval(opt) ==
  [options |-> opt,
   index_block_options |-> opt,
   offset |-> 0,
   status |-> "OK",
   data_block |-> NewBlockBuilder,
   index_block |-> NewBlockBuilder,
   last_key |-> <<>>,
   num_entries |-> 0,
   closed |-> FALSE,
   has_filter |-> ~opt.filter_policy.null,
   filter_block |-> NewFilterBlockBuilder(opt.filter_policy),
   pending_index_entry |-> FALSE,
   pending_handle |-> UnsetHandle]

NewRep(opt) ==
  [options |-> opt,
   index_block_options |-> [opt EXCEPT !.block_restart_interval = 1],
   offset |-> 0,
   status |-> "OK",
   data_block |-> NewBlockBuilder,
   index_block |-> NewBlockBuilder,
   last_key |-> <<>>,
   num_entries |-> 0,
   closed |-> FALSE,
   has_filter |-> ~opt.filter_policy.null,
   filter_block |-> NewFilterBlockBuilder(opt.filter_policy),
   pending_index_entry |-> FALSE,
   pending_handle |-> UnsetHandle]

\* The record of a StartBlock call: its argument and the filters emitted
\* when it returned.
StartBlockCall(fb, block_offset) ==
  [arg |-> block_offset, filters |-> Len(fb.filter_offsets_)]

\* if (r->filter_block != NULL) r->filter_block->StartBlock(block_offset)
\* A CreateFilter call that ends with a fault ends the process with it.
Filter_StartBlock(s, block_offset) ==
  IF ~s.r.has_filter THEN s
  ELSE LET t == [Check(s, StartBlockAsserts(s.r.filter_block, block_offset),
                        "StartBlock: filter_index >= filter_offsets_.size()")
                   EXCEPT !.r.filter_block = StartBlock(@, block_offset),
                          !.obs.start_block =
                             Append(@, StartBlockCall(
                                         StartBlock(s.r.filter_block, block_offset),
                                         block_offset)),
                          !.obs.filter_calls = Append(@, "StartBlock")]
       IN  IF t.r.filter_block.fault = "none" THEN t
           ELSE [t EXCEPT !.obs.crashed = TRUE]

\* Seeded fault: the trailer is left out of the offset.
AdvanceOffset_PayloadOnly(offset, size) == offset + size

\* r->offset += size + kBlockTrailerSize
AdvanceOffset(offset, size) == offset + size + kBlockTrailerSize

\* handle->set_offset(r->offset); handle->set_size(block_contents.size())
\* Seeded fault: every block's handle goes through pending_handle.
SetHandle_ThroughPending(s, which, size) ==
  IF which = "data"
  THEN [s EXCEPT !.r.pending_handle = [offset |-> s.r.offset, size |-> size]]
  ELSE [s EXCEPT !.r.pending_handle = [offset |-> s.r.offset, size |-> size],
                 !.local[which] = [offset |-> s.r.offset, size |-> size]]

SetHandle(s, which, size) ==
  IF which = "data"
  THEN [s EXCEPT !.r.pending_handle = [offset |-> s.r.offset, size |-> size]]
  ELSE [s EXCEPT !.local[which] = [offset |-> s.r.offset, size |-> size]]

\* WriteRawBlock, after both Appends: the offset advances when the trailer
\* went through.
BlockWritten(s, block_contents, type, which) ==
  IF ~ok(s) THEN s
  ELSE [s EXCEPT !.r.offset = AdvanceOffset(@, Size(block_contents)),
                 !.obs.blocks =
                    Append(@, [kind |-> which,
                               offset |-> s.r.offset,
                               size |-> Size(block_contents),
                               type |-> type,
                               contents |-> block_contents,
                               keys |-> IF which = "data"
                                        THEN s.obs.cur_keys ELSE <<>>,
                               write |-> IF ~s.obs.watch
                                         THEN Uncompressed(<<>>)
                                         ELSE IF which = "filter"
                                         THEN Uncompressed(block_contents)
                                         ELSE s.local.write])]

\* WriteRawBlock, after the payload's Append: the trailer.
WriteTrailer(s, block_contents, type, which) ==
  IF ~ok(s) THEN s
  ELSE BlockWritten(
         SetStatus(File_Append(s, Fill(type, 1) \o Fill(0, 4), "trailer")),
         block_contents, type, which)

\* WriteRawBlock(block_contents, type, handle); `which` names the block and
\* so the handle: "data" (pending_handle), "filter", "metaindex", "index".
WriteRawBlock(s, block_contents, type, which) ==
  WriteTrailer(
    SetStatus(File_Append(SetHandle(s, which, Size(block_contents)),
                          block_contents, which)),
    block_contents, type, which)

\* The block WriteBlock is called on.
BlockOf(s, which) ==
  IF which = "data" THEN s.r.data_block
  ELSE IF which = "index" THEN s.r.index_block
  ELSE s.local.meta_index_block

\* Seeded fault: the compressed form is taken at the threshold too.
UseCompressed_AtThreshold(compressed, raw) ==
  compressed.ok /\ Size(compressed.out) <= Size(raw) - (Size(raw) \div 8)

\* Whether WriteBlock stores the compressor's output.
UseCompressed(compressed, raw) ==
  compressed.ok /\ Size(compressed.out) < Size(raw) - (Size(raw) \div 8)

\* Seeded fault: WriteBlock without block->Reset().
ResetBlock_Missing(s, which) == s

\* block->Reset() at the end of WriteBlock.
ResetBlock(s, which) ==
  IF which = "data"
  THEN [s EXCEPT !.r.data_block = BlockBuilder_Reset(@), !.obs.cur_keys = <<>>]
  ELSE IF which = "index"
  THEN [s EXCEPT !.r.index_block = BlockBuilder_Reset(@)]
  ELSE [s EXCEPT !.local.meta_index_block = BlockBuilder_Reset(@)]

\* WriteBlock, once the block is finished: raw is the slice Finish returned.
WriteFinished(s, raw, which) ==
  IF s.r.options.compression = "kSnappyCompression"
     /\ UseCompressed(Snappy_Compress(s.env.snappy, raw), raw)
  THEN WriteRawBlock(s, Snappy_Compress(s.env.snappy, raw).out, 1, which)
  ELSE WriteRawBlock(s, raw, 0, which)

\* What WriteBlock had in hand: the slice Finish returned, the compression
\* the options ask for and what the compressor made of the slice (called
\* only for kSnappyCompression).
Compressing(s, raw, which) ==
  [s EXCEPT !.local.write =
     [raw |-> raw,
      compression |-> s.r.options.compression,
      compressed |->
         IF s.r.options.compression = "kSnappyCompression"
         THEN Snappy_Compress(s.env.snappy, raw)
         ELSE [ok |-> FALSE, out |-> <<>>]]]

\* WriteBlock(block, handle)
WriteBlock(s, which) ==
  ResetBlock(
    WriteFinished(
      Compressing(Check(s, ok(s), "WriteBlock: ok()"),
                  BlockBuilder_Finish(BlockOf(s, which)).buffer_, which),
      BlockBuilder_Finish(BlockOf(s, which)).buffer_, which),
    which)

\* Seeded fault: Flush does not call the sink's Flush.
FlushFile_NoSinkFlush(s) ==
  IF ok(s) THEN [s EXCEPT !.r.pending_index_entry = TRUE] ELSE s

\* Seeded fault: Flush never raises pending_index_entry.
FlushFile_NoPending(s) ==
  IF ok(s) THEN SetStatus(File_Flush(s)) ELSE s

\* Seeded fault: Flush does not test ok() after WriteBlock.
FlushFile_Unconditional(s) ==
  SetStatus(File_Flush([s EXCEPT !.r.pending_index_entry = TRUE]))

\* Flush, after WriteBlock: the pending entry and the sink's Flush.
FlushFile(s) ==
  IF ok(s)
  THEN SetStatus(File_Flush([s EXCEPT !.r.pending_index_entry = TRUE]))
  ELSE s

\* Seeded fault: StartBlock is given the offset of the block just written.
StartNextBlock_BlockStart(s) == Filter_StartBlock(s, s.r.pending_handle.offset)

\* Flush, at its end: the filter block starts its next block.
StartNextBlock(s) == Filter_StartBlock(s, s.r.offset)

\* Seeded fault: Flush does not return early on an empty data block.
Flush_WritesEmpty(s) ==
  IF ~ok(s) THEN Check(s, ~s.r.closed, "Flush: !closed")
  ELSE StartNextBlock(
         FlushFile(
           WriteBlock(Check(Check(s, ~s.r.closed, "Flush: !closed"),
                            ~s.r.pending_index_entry,
                            "Flush: !pending_index_entry"),
                      "data")))

\* TableBuilder::Flush()
Flush(s) ==
  IF ~ok(s) THEN Check(s, ~s.r.closed, "Flush: !closed")
  ELSE IF BlockBuilder_empty(s.r.data_block)
  THEN Check(s, ~s.r.closed, "Flush: !closed")
  ELSE StartNextBlock(
         FlushFile(
           WriteBlock(Check(Check(s, ~s.r.closed, "Flush: !closed"),
                            ~s.r.pending_index_entry,
                            "Flush: !pending_index_entry"),
                      "data")))

\* r->index_block.Add(r->last_key, handle_encoding) with the pending handle,
\* after last_key was replaced by index_key; `at` is the caller.
AddIndexEntry(s, index_key, at) ==
  [Check(Check(s, BlockBuilder_CounterAssert(s.r.index_block,
                                             s.r.index_block_options),
               "BlockBuilder::Add: counter_ <= block_restart_interval"),
         BlockBuilder_AddAsserts(s.r.index_block, s.r.index_block_options,
                                 index_key),
         "BlockBuilder::Add (index block)")
     EXCEPT !.r.last_key = index_key,
            !.r.index_block =
               BlockBuilder_Add(@, s.r.index_block_options, index_key,
                                Runs(BlockHandle_EncodeTo(<<>>, s.r.pending_handle))),
            !.r.pending_index_entry = FALSE,
            !.obs.index_adds =
               Append(@, [key |-> index_key, handle |-> s.r.pending_handle,
                          at |-> at, entries |-> s.r.num_entries])]

\* Seeded fault: the arriving key itself is used as the index key.
AddPendingEntry_NextKey(s, key) ==
  IF s.r.pending_index_entry
  THEN AddIndexEntry(Check(s, BlockBuilder_empty(s.r.data_block),
                           "Add: data_block.empty()"),
                     key, "Add")
  ELSE s

\* Add: the index entry of the block before, when one is pending.
AddPendingEntry(s, key) ==
  IF s.r.pending_index_entry
  THEN AddIndexEntry(Check(s, BlockBuilder_empty(s.r.data_block),
                           "Add: data_block.empty()"),
                     FindShortestSeparator(s.r.last_key, key), "Add")
  ELSE s

\* Add: the key goes to the filter block.
AddFilterKey(s, key) ==
  IF s.r.has_filter
  THEN [s EXCEPT !.r.filter_block = AddKey(@, key),
                 !.obs.filter_calls = Append(@, "AddKey")]
  ELSE s

\* TableBuilder::NumEntries()
NumEntries(r) == r.num_entries

\* Add: the entry goes to the data block.
AddEntry(s, key, value) ==
  [Check(Check(s, BlockBuilder_CounterAssert(s.r.data_block, s.r.options),
               "BlockBuilder::Add: counter_ <= block_restart_interval"),
         BlockBuilder_AddAsserts(s.r.data_block, s.r.options, key),
         "BlockBuilder::Add (data block)")
     EXCEPT !.r.last_key = key,
            !.r.num_entries = @ + 1,
            !.r.data_block = BlockBuilder_Add(@, s.r.options, key, value),
            !.obs.cur_keys = Append(@, key)]

\* Seeded fault: a block of exactly block_size bytes is not full yet.
BlockIsFull_Strict(estimated_block_size, block_size) ==
  estimated_block_size > block_size

\* Whether Add flushes the data block after adding an entry.
BlockIsFull(estimated_block_size, block_size) ==
  estimated_block_size >= block_size

\* Add: the data block is flushed when it is full.
FlushIfFull(s) ==
  IF BlockIsFull(BlockBuilder_CurrentSizeEstimate(s.r.data_block),
                 s.r.options.block_size)
  THEN Flush(s)
  ELSE s

\* Seeded fault: Add counts the entry before it looks at the status.
Add_CountsFirst(s, key, value) ==
  IF ~ok(s)
  THEN [Check(s, ~s.r.closed, "Add: !closed") EXCEPT !.r.num_entries = @ + 1]
  ELSE FlushIfFull(
         AddEntry(
           AddFilterKey(
             AddPendingEntry(
               Check(Check(s, ~s.r.closed, "Add: !closed"),
                     s.r.num_entries > 0 => Compare(key, s.r.last_key) > 0,
                     "Add: Compare(key, last_key) > 0"),
               key),
             key),
           key, value))

\* TableBuilder::Add(key, value)
Add(s, key, value) ==
  IF ~ok(s) THEN Check(s, ~s.r.closed, "Add: !closed")
  ELSE FlushIfFull(
         AddEntry(
           AddFilterKey(
             AddPendingEntry(
               Check(Check(s, ~s.r.closed, "Add: !closed"),
                     s.r.num_entries > 0 => Compare(key, s.r.last_key) > 0,
                     "Add: Compare(key, last_key) > 0"),
               key),
             key),
           key, value))

\* Finish: assert(!r->closed); r->closed = true.  Neither is reached when
\* the process ended in the Flush before, in the StartBlock call at its end.
\* Seeded fault: Finish does not mark the builder closed.
Close_StaysOpen(s) ==
  IF s.obs.crashed THEN s ELSE Check(s, ~s.r.closed, "Finish: !closed")

Close(s) ==
  IF s.obs.crashed THEN s
  ELSE [Check(s, ~s.r.closed, "Finish: !closed") EXCEPT !.r.closed = TRUE]

\* Finish: the filter block.
WriteFilterBlock(s) ==
  IF ok(s) /\ s.r.has_filter /\ ~s.obs.crashed
  THEN LET t == [s EXCEPT !.r.filter_block = FilterBlockBuilder_Finish(@),
                          !.obs.filter_calls = Append(@, "Finish")]
       IN  IF t.r.filter_block.fault = "none"
           THEN WriteRawBlock(t, Runs(t.r.filter_block.result_), 0, "filter")
           ELSE [t EXCEPT !.obs.crashed = TRUE]
  ELSE s

\* The meta-index block Finish builds.
MetaIndexBlock(s) ==
  IF s.r.has_filter
  THEN BlockBuilder_Add(NewBlockBuilder, s.r.options, FilterMetaKey,
                        Runs(BlockHandle_EncodeTo(<<>>, s.local.filter)))
  ELSE NewBlockBuilder

\* Finish: the meta-index block.  r->options.filter_policy->Name()
\* dereferences the policy of the current options: a null pointer when
\* ChangeOptions removed the policy, and the call then never returns.
WriteMetaIndexBlock(s) ==
  IF ~ok(s) \/ s.obs.crashed THEN s
  ELSE IF s.r.has_filter /\ s.r.options.filter_policy.null
  THEN [s EXCEPT !.obs.crashed = TRUE]
  ELSE WriteBlock([s EXCEPT !.local.meta_index_block = MetaIndexBlock(s)],
                  "metaindex")

\* Finish: the index block, with the entry of the last data block.
WriteIndexBlock(s) ==
  IF ~ok(s) \/ s.obs.crashed THEN s
  ELSE IF s.r.pending_index_entry
  THEN WriteBlock(AddIndexEntry(s, FindShortSuccessor(s.r.last_key), "Finish"),
                  "index")
  ELSE WriteBlock(s, "index")

\* Seeded fault: the footer's length is added whatever its Append returned.
FooterWritten_Always(s, footer_encoding) ==
  [s EXCEPT !.r.offset = @ + Size(footer_encoding)]

\* Finish: the footer, once its Append was called.
FooterWritten(s, footer_encoding) ==
  IF ok(s) THEN [s EXCEPT !.r.offset = @ + Size(footer_encoding)] ELSE s

\* Finish: the footer.
WriteFooter(s) ==
  IF ~ok(s) \/ s.obs.crashed THEN s
  ELSE FooterWritten(
         SetStatus(File_Append(
           s, Runs(Footer_EncodeTo(s.local.metaindex, s.local.index)), "footer")),
         Runs(Footer_EncodeTo(s.local.metaindex, s.local.index)))

\* Finish: return r->status.
Return(s) ==
  IF s.obs.crashed THEN s
  ELSE [s EXCEPT !.obs.returned = [op |-> "Finish", status |-> s.r.status,
                                   entry |-> s.entry]]

\* TableBuilder::Finish()
Finish(s) ==
  Return(WriteFooter(WriteIndexBlock(WriteMetaIndexBlock(
    WriteFilterBlock(Close(Flush(s)))))))

\* Seeded fault: Abandon flushes the data block before it closes.
Abandon_Flushing(s) ==
  [Check(Flush(s), ~s.r.closed, "Abandon: !closed") EXCEPT !.r.closed = TRUE]

\* TableBuilder::Abandon()
Abandon(s) ==
  [Check(s, ~s.r.closed, "Abandon: !closed") EXCEPT !.r.closed = TRUE]

\* Seeded fault: ChangeOptions hands the index block the new options as
\* they are.
ChangeOptions_IndexAsGiven(s, options) ==
  IF options.comparator # s.r.options.comparator
  THEN [s EXCEPT !.obs.returned =
                    [op |-> "ChangeOptions", status |-> "InvalidArgument",
                     entry |-> s.entry]]
  ELSE [s EXCEPT !.r.options = options,
                 !.r.index_block_options = options,
                 !.obs.returned = [op |-> "ChangeOptions", status |-> "OK",
                                   entry |-> s.entry]]

\* TableBuilder::ChangeOptions(options)
ChangeOptions(s, options) ==
  IF options.comparator # s.r.options.comparator
  THEN [s EXCEPT !.obs.returned =
                    [op |-> "ChangeOptions", status |-> "InvalidArgument",
                     entry |-> s.entry]]
  ELSE [s EXCEPT !.r.options = options,
                 !.r.index_block_options =
                    [options EXCEPT !.block_restart_interval = 1],
                 !.obs.returned = [op |-> "ChangeOptions", status |-> "OK",
                                   entry |-> s.entry]]

(***************************************************************************)
(* The specification: a builder is constructed, then its operations are    *)
(* called in any order the interface allows (none after Finish or Abandon, *)
(* keys in strictly ascending order).                                      *)
(***************************************************************************)
NoObs ==
  [failed |-> {}, crashed |-> FALSE, start_block |-> <<>>,
   filter_calls |-> <<>>, blocks |-> <<>>, index_adds |-> <<>>,
   cur_keys |-> <<>>, returned |-> NoReturn, changes |-> 0,
   watch |-> FALSE, adds_ok |-> 0]

\* TableBuilder::TableBuilder(options, file)
Construct(opt) ==
  Filter_StartBlock(
    [r |-> NewRep(opt), file |-> [size |-> 0, log |-> <<>>], obs |-> NoObs,
     env |-> NoFailure, calls |-> 0, ret |-> "OK", local |-> NoLocals,
     entry |-> "OK"],
    0)

\* The handler returns; or an assertion failed in it, the process aborted
\* there, and all that is kept of the call is which assertion it was.
Leave(t) ==
  IF t.obs.failed = {}
  THEN rep' = t.r /\ file' = t.file /\ obs' = t.obs
  ELSE rep' = rep /\ file' = file /\ obs' = [obs EXCEPT !.failed = t.obs.failed]

Init ==
  \E opt \in OptionsSet :
     /\ rep = Construct(opt).r
     /\ file = Construct(opt).file
     /\ obs = Construct(opt).obs

Open == ~rep.closed /\ ~obs.crashed /\ obs.failed = {}

\* The caller's side of Add's contract: keys arrive in ascending order.
Ascending(key) ==
  (rep.status = "OK" /\ rep.num_entries > 0) => Compare(key, rep.last_key) > 0

\* The caller's count of the Add calls it made while the status was OK.
CountedAdd(s) ==
  IF s.entry = "OK" THEN [s EXCEPT !.obs.adds_ok = @ + 1] ELSE s

AddAction ==
  /\ Open
  /\ rep.num_entries < MaxEntries
  /\ \E key \in Keys, value \in Values, env \in Envs("Add") :
        /\ Ascending(key)
        /\ Leave(CountedAdd(Add(Enter(env), key, value)))

FlushAction ==
  /\ Open
  /\ \E env \in Envs("Flush") : Leave(Flush(Enter(env)))

FinishAction ==
  /\ Open
  /\ \E env \in Envs("Finish") : Leave(Finish(Enter(env)))

AbandonAction ==
  /\ Open
  /\ Leave(Abandon(Enter(NoFailure)))

\* The options were replaced once more, or the call was refused.
Counted(s) ==
  IF s.r.options # rep.options THEN [s EXCEPT !.obs.changes = @ + 1] ELSE s

\* ChangeOptions has no assert(!closed): it is also called on a builder
\* after Finish or Abandon.
ChangeOptionsAction ==
  /\ ~obs.crashed
  /\ obs.failed = {}
  /\ \E options \in ChangeSet \ {rep.options} :
        /\ options.comparator = rep.options.comparator
              => obs.changes < MaxChanges
        /\ Leave(Counted(ChangeOptions(Enter(NoFailure), options)))

Next ==
  \/ AddAction
  \/ FlushAction
  \/ FinishAction
  \/ AbandonAction
  \/ ChangeOptionsAction

Spec == Init /\ [][Next]_vars

(***************************************************************************)
(* What a run shows: the blocks written, the index entries added, the      *)
(* StartBlock calls made, the value returned.                              *)
(***************************************************************************)
BlocksOfKind(kind) == SelectSeq(obs.blocks, LAMBDA b : b.kind = kind)

\* The data blocks written to the file (payload and trailer), in order.
DataBlocks == BlocksOfKind("data")

\* The handle a written block should be found by.
HandleOf(b) == [offset |-> b.offset, size |-> b.size]

\* The file offset right after a written block's trailer.
EndOf(b) == b.offset + b.size + kBlockTrailerSize

FinishReturned == obs.returned.op = "Finish"

FinishedOK == FinishReturned /\ obs.returned.status = "OK"

LastOf(seq) == seq[Len(seq)]

(***************************************************************************)
(* Properties.                                                             *)
(***************************************************************************)

\* C1: in every state reachable by Add, Flush, ChangeOptions, Finish and
\* Abandon, pending_index_entry is true only if the data block builder is
\* empty, and the assertions of Add and Flush that rely on it never fail.
C1_PendingOnlyIfEmpty ==
  /\ rep.pending_index_entry => BlockBuilder_empty(rep.data_block)
  /\ "Add: data_block.empty()" \notin obs.failed
  /\ "Flush: !pending_index_entry" \notin obs.failed

\* An entry is pending for the second time, after the options were changed,
\* and the builder was abandoned in that state.
C1_Witness ==
  /\ rep.pending_index_entry
  /\ obs.index_adds # <<>>
  /\ obs.changes > 0
  /\ rep.closed

\* The payload of a block was appended and the Append of its trailer failed.
TornBlock ==
  /\ Len(file.log) >= 2
  /\ ~LastOf(file.log).ok
  /\ LastOf(file.log).what = "trailer"

\* The bytes in the file that the offset does not count.
TornBytes == IF TornBlock THEN file.log[Len(file.log) - 1].n ELSE 0

\* C2 (as stated): between operations the offset equals the number of bytes
\* appended to the file, in every reachable state, also after a failed
\* Append or Flush.
C2_OffsetIsBytesAppended == rep.offset = file.size

\* C2 (amended): while the status is OK the offset equals the number of
\* bytes appended to the file; after an error it is that number less the
\* payload of the block whose trailer failed, if that is what failed.
C2_OffsetIsBytesAppendedWhileOK ==
  /\ rep.status = "OK" => rep.offset = file.size
  /\ rep.offset + TornBytes = file.size

\* A payload went through, its trailer did not, and the offset is short.
C2_Witness ==
  /\ rep.status # "OK"
  /\ TornBlock
  /\ rep.offset < file.size
  /\ DataBlocks # <<>>

\* The bytes of the blocks the sink accepted: each payload and 5 more.
RECURSIVE BlockBytes(_)
BlockBytes(log) ==
  IF log = <<>> THEN 0
  ELSE (IF log[1].op = "Append" /\ log[1].ok
           /\ log[1].what \notin {"trailer", "footer"}
        THEN log[1].n + 5 ELSE 0)
       + BlockBytes(Tail(log))

\* C3: after Finish returned OK (so no sink call failed), FileSize() is the
\* number of bytes appended to the sink: the sum over the written blocks of
\* payload length + 5, plus the footer's length.
C3_FileSizeAfterFinish ==
  FinishedOK =>
    /\ rep.offset = file.size
    /\ rep.offset = BlockBytes(file.log) + kFooterEncodedLength
    /\ LastOf(file.log).what = "footer"
    /\ LastOf(file.log).n = kFooterEncodedLength

\* Finish returned OK after two data blocks or more and a filter block.
C3_Witness ==
  /\ FinishedOK
  /\ Len(DataBlocks) >= 2
  /\ BlocksOfKind("filter") # <<>>

\* The entries of the index block as the file holds them, when it was
\* stored uncompressed.
WrittenIndexEntries == BlockEntries(Flat(BlocksOfKind("index")[1].contents))

\* The written index block decodes to the entries added to it.
IndexBlockHoldsEntries ==
  /\ Len(WrittenIndexEntries) = Len(obs.index_adds)
  /\ \A i \in 1..Len(WrittenIndexEntries) :
        /\ ~WrittenIndexEntries[i].corruption
        /\ ~WrittenIndexEntries[i].overrun
        /\ WrittenIndexEntries[i].key = obs.index_adds[i].key
        /\ BlockHandle_DecodeFrom(WrittenIndexEntries[i].value)
             = obs.index_adds[i].handle

\* C4: after Finish returned OK the index block holds exactly one entry for
\* each data block written, in the order the blocks were written, and the
\* index keys are strictly ascending under the comparator.
C4_OneIndexEntryPerBlock ==
  FinishedOK =>
    /\ Len(BlocksOfKind("index")) = 1
    /\ Len(obs.index_adds) = Len(DataBlocks)
    /\ \A i \in 1..Len(DataBlocks) :
          obs.index_adds[i].handle = HandleOf(DataBlocks[i])
    /\ \A i \in 1..(Len(obs.index_adds) - 1) :
          Compare(obs.index_adds[i].key, obs.index_adds[i + 1].key) < 0
    /\ BlocksOfKind("index")[1].type = 0 => IndexBlockHoldsEntries

\* Finish returned OK with three data blocks and an uncompressed index block.
C4_Witness ==
  /\ FinishedOK
  /\ Len(DataBlocks) >= 3
  /\ BlocksOfKind("index")[1].type = 0

\* C5: after Finish returned, whatever the status it returned,
\* pending_index_entry is false and every data block written to the file
\* has an index entry.
C5_NoPendingAfterFinish ==
  FinishReturned =>
    /\ ~rep.pending_index_entry
    /\ Len(obs.index_adds) = Len(DataBlocks)

\* A step of the builder in which an error, once there, stays: the failed
\* sink call is the last sink call, the status is its error, and an
\* operation started with a non-OK status leaves status and file alone,
\* fails no assertion and, if it is Finish, returns that status.
LatchedStep ==
  /\ \A i \in 1..Len(file'.log) : ~file'.log[i].ok => i = Len(file'.log)
  /\ rep'.status # "OK" <=> (file'.log # <<>> /\ ~LastOf(file'.log).ok)
  /\ rep.status # "OK" =>
       /\ rep'.status = rep.status
       /\ file' = file
       /\ obs'.failed = {}
       /\ obs'.returned.op = "Finish" => obs'.returned.status = rep.status

\* C6: once the status is non-OK it never changes again; later Add, Flush
\* and Finish append nothing and call no sink Flush; Finish can be called
\* without failing an assertion and returns that first error.
C6_ErrorLatches == [][LatchedStep]_vars

\* Finish was called with an error latched and returned it.
C6_Witness ==
  /\ FinishReturned
  /\ obs.returned.entry # "OK"
  /\ obs.returned.status = obs.returned.entry
  /\ rep.num_entries > 0

\* The reader of the filter block the file holds.
WrittenFilterReader ==
  FilterBlockReader(rep.filter_block.policy_,
                    Flat(BlocksOfKind("filter")[1].contents))

\* C7: for every data block written at offset o and every key k added into
\* it, the FilterBlockReader built from the bytes FilterBlockBuilder::Finish
\* returned answers KeyMayMatch(o, k) = true.
C7_NoFalseNegatives ==
  BlocksOfKind("filter") # <<>> =>
    \A i \in 1..Len(DataBlocks) :
       \A j \in 1..Len(DataBlocks[i].keys) :
          \A outcome \in Reader_KeyMayMatch(WrittenFilterReader,
                                            DataBlocks[i].offset,
                                            DataBlocks[i].keys[j]) :
             outcome.result

\* The filter block was written after two data blocks that start in one
\* 2 KiB window, the second of them spanning windows, and a third block
\* that starts two windows further.
C7_Witness ==
  /\ BlocksOfKind("filter") # <<>>
  /\ Len(DataBlocks) = 3
  /\ EndOf(DataBlocks[1]) < kFilterBase
  /\ DataBlocks[3].offset >= 2 * kFilterBase

\* The arguments of the StartBlock calls, in order.
StartBlockArgs ==
  [i \in 1..Len(obs.start_block) |-> obs.start_block[i].arg]

\* 0, then the offset after each written data block.
BlockEnds == <<0>> \o [i \in 1..Len(DataBlocks) |-> EndOf(DataBlocks[i])]

NonDecreasing(seq) == \A i \in 1..(Len(seq) - 1) : seq[i] <= seq[i + 1]

\* The Append of a data block's payload or trailer failed.
DataWriteFailed ==
  /\ file.log # <<>>
  /\ ~LastOf(file.log).ok
  /\ LastOf(file.log).op = "Append"
  /\ LastOf(file.log).what \in {"data", "trailer"}

\* C8 (as stated): the arguments passed to StartBlock are non-decreasing and
\* exactly [0, off1, off2, ...], off_i the file offset right after data
\* block i was written.
C8_StartBlockOffsets ==
  rep.has_filter =>
    /\ NonDecreasing(StartBlockArgs)
    /\ StartBlockArgs = BlockEnds

\* C8 (amended): the arguments passed to StartBlock are non-decreasing and
\* are [0, off1, off2, ...], followed by the last of these once more when
\* the write of a data block failed: Flush calls StartBlock with the
\* unchanged offset then.
C8_StartBlockOffsetsOrRepeat ==
  rep.has_filter =>
    /\ NonDecreasing(StartBlockArgs)
    /\ \/ StartBlockArgs = BlockEnds
       \/ /\ DataWriteFailed
          /\ StartBlockArgs = Append(BlockEnds, LastOf(BlockEnds))

\* Two data blocks were flushed with a filter policy and no error.
C8_Witness ==
  /\ rep.has_filter
  /\ rep.status = "OK"
  /\ Len(obs.start_block) >= 3
  /\ StartBlockArgs = BlockEnds

CeilDiv(a, b) == (a + b - 1) \div b

\* The StartBlock calls that Flush made (the first is the constructor's).
FlushStartBlocks == 2..Len(obs.start_block)

\* C9 (as stated): right after each data block flush the number M of
\* filters emitted is at least ceil(next_block_offset / 2^11).
C9_FiltersAtLeastCeil ==
  \A i \in FlushStartBlocks :
     obs.start_block[i].filters >= CeilDiv(obs.start_block[i].arg, kFilterBase)

\* C9 (amended): right after each data block flush M is at least
\* floor(next_block_offset / 2^11), and it is below the ceiling whenever the
\* offset is not a multiple of 2^11.
C9_FiltersAtLeastFloor ==
  \A i \in FlushStartBlocks :
     /\ obs.start_block[i].filters >= obs.start_block[i].arg \div kFilterBase
     /\ obs.start_block[i].arg % kFilterBase # 0 =>
          obs.start_block[i].filters
            < CeilDiv(obs.start_block[i].arg, kFilterBase)

\* A flush left the next block two windows or more further.
C9_Witness ==
  \E i \in FlushStartBlocks :
     /\ obs.start_block[i].arg >= 2 * kFilterBase
     /\ obs.start_block[i].filters >= 2

\* The keys of the first i data blocks, counted.
RECURSIVE KeysThrough(_)
KeysThrough(i) ==
  IF i = 0 THEN 0 ELSE Len(DataBlocks[i].keys) + KeysThrough(i - 1)

\* The keys added after those of data block i.
KeysAfter(i) ==
  UNION { { DataBlocks[j].keys[n] : n \in 1..Len(DataBlocks[j].keys) } :
            j \in (i + 1)..Len(DataBlocks) }
  \cup { obs.cur_keys[n] : n \in 1..Len(obs.cur_keys) }

\* C10: the index key of data block N is >= every key of block N and < every
\* key of every later block (for the last block: >= every key of it).  The
\* entry of block N is added only when the first key of block N+1 arrives
\* through Add, or at Finish if none arrives.
C10_IndexKeySeparates ==
  /\ Len(obs.index_adds) <= Len(DataBlocks)
  /\ rep.pending_index_entry => Len(obs.index_adds) = Len(DataBlocks) - 1
  /\ \A i \in 1..Len(obs.index_adds) :
        /\ obs.index_adds[i].handle = HandleOf(DataBlocks[i])
        /\ \A n \in 1..Len(DataBlocks[i].keys) :
              Compare(obs.index_adds[i].key, DataBlocks[i].keys[n]) >= 0
        /\ \A k \in KeysAfter(i) : Compare(obs.index_adds[i].key, k) < 0
        /\ obs.index_adds[i].entries = KeysThrough(i)
        /\ obs.index_adds[i].at = "Add" =>
              rep.num_entries > obs.index_adds[i].entries
        /\ obs.index_adds[i].at = "Finish" =>
              /\ i = Len(DataBlocks)
              /\ rep.closed
              /\ rep.num_entries = obs.index_adds[i].entries

\* Finish returned OK; the first index key is a separator that is no key of
\* the table, and the last was added by Finish.
C10_Witness ==
  /\ FinishedOK
  /\ Len(obs.index_adds) >= 2
  /\ obs.index_adds[1].at = "Add"
  /\ obs.index_adds[1].key \notin Keys
  /\ LastOf(obs.index_adds).at = "Finish"

\* What the sink accepted, in order: the block a payload Append belongs to,
\* or "footer" (trailers left out).
RECURSIVE AppendedKinds(_)
AppendedKinds(log) ==
  IF log = <<>> THEN <<>>
  ELSE (IF log[1].op = "Append" /\ log[1].ok /\ log[1].what # "trailer"
        THEN <<log[1].what>> ELSE <<>>)
       \o AppendedKinds(Tail(log))

\* n data blocks, the filter block if there is one, the meta-index block,
\* the index block, the footer.
TableLayout(n, filter) ==
  [i \in 1..n |-> "data"]
    \o (IF filter THEN <<"filter">> ELSE <<>>)
    \o <<"metaindex", "index", "footer">>

\* C11: in any run in which Finish returns OK the file holds, in this order,
\* every data block, the filter block if and only if a filter policy is
\* configured, the meta-index block, the index block and the footer.
C11_BlockOrder ==
  FinishedOK =>
    AppendedKinds(file.log)
      = TableLayout(Len(DataBlocks), ~rep.options.filter_policy.null)

\* C11, with the filter block tied to the policy the builder was constructed
\* with: this is the order the code writes.
C11_BlockOrderAsConstructed ==
  FinishedOK =>
    /\ AppendedKinds(file.log) = TableLayout(Len(DataBlocks), rep.has_filter)
    /\ LastOf(file.log).what = "footer"

\* Finish returned OK for a table of two data blocks with a filter block.
C11_Witness ==
  /\ FinishedOK
  /\ Len(DataBlocks) >= 2
  /\ rep.has_filter

\* C12: after every data block that Flush wrote (payload and trailer), the
\* next call on the sink is Flush(), made before the operation returns; so
\* every data block is followed by a flush request before any further byte,
\* the index block's among them.
C12_SinkFlushAfterDataBlock ==
  \A i \in 2..Len(file.log) :
     (/\ file.log[i].what = "trailer"
      /\ file.log[i].ok
      /\ file.log[i - 1].what = "data")
       => /\ i < Len(file.log)
          /\ file.log[i + 1].op = "Flush"

\* The index block was appended after two data blocks.
C12_Witness ==
  /\ Len(DataBlocks) >= 2
  /\ BlocksOfKind("index") # <<>>

\* What Abandon is allowed to change: closed, and nothing else.
AbandonedStep ==
  /\ rep' = [rep EXCEPT !.closed = TRUE]
  /\ file' = file
  /\ obs'.blocks = obs.blocks
  /\ obs'.index_adds = obs.index_adds
  /\ obs'.start_block = obs.start_block
  /\ obs'.filter_calls = obs.filter_calls
  /\ obs'.failed = {}

\* C13: Abandon marks the builder closed and changes nothing else: no byte
\* is appended, offset, num_entries and status stay, and no filter,
\* meta-index or index block or footer is written, also when entries are
\* buffered or an index entry is pending.
C13_AbandonOnlyCloses == [][AbandonAction => AbandonedStep]_vars

\* The builder was abandoned with an entry buffered after a first block was
\* written; no Finish ran.
C13_Witness ==
  /\ rep.closed
  /\ obs.returned.op = "none"
  /\ ~obs.crashed
  /\ obs.cur_keys # <<>>
  /\ ~BlockBuilder_empty(rep.data_block)
  /\ Len(DataBlocks) = 1
  /\ BlocksOfKind("index") = <<>>

\* What a ChangeOptions(options) call may do to the builder.
ChangedTo(options) ==
  IF options.comparator # rep.options.comparator
  THEN /\ obs'.returned.status = "InvalidArgument"
       /\ rep' = rep
  ELSE /\ obs'.returned.status = "OK"
       /\ rep' = [rep EXCEPT !.options = options,
                             !.index_block_options =
                                [options EXCEPT !.block_restart_interval = 1]]
       /\ rep'.index_block_options.block_restart_interval = 1

\* C14: ChangeOptions with another comparator returns InvalidArgument and
\* leaves options, index block options and status as they were; with the
\* same comparator it returns OK, replaces the options, and the index
\* block's restart interval is still 1.
C14_ChangeOptions ==
  [][\A options \in ChangeSet :
        Leave(Counted(ChangeOptions(Enter(NoFailure), options)))
          => /\ obs'.returned.op = "ChangeOptions"
             /\ file' = file
             /\ ChangedTo(options)]_vars

\* ChangeOptions replaced options of restart interval 1 by others of
\* interval 16 while the index block held an entry.
C14_Witness ==
  /\ obs.returned = [op |-> "ChangeOptions", status |-> "OK", entry |-> "OK"]
  /\ obs.changes = 1
  /\ rep.options.block_restart_interval = 16
  /\ rep.index_block_options.block_restart_interval = 1
  /\ rep.index_block_options.block_size = rep.options.block_size
  /\ ~BlockBuilder_empty(rep.index_block)

\* ChangeOptions refused another comparator after a block was written.
C14_Refused ==
  /\ obs.returned.op = "ChangeOptions"
  /\ obs.returned.status = "InvalidArgument"
  /\ rep.options.comparator = "bytewise"
  /\ DataBlocks # <<>>

\* The entries of the index block under construction.
IndexHeaders ==
  EntryHeaders(Flat(rep.index_block.buffer_), 0, Size(rep.index_block.buffer_), 0)

\* C15: whatever was called before, ChangeOptions with another
\* block_restart_interval included, the index block builder works with
\* restart interval 1: each entry added to it has shared = 0 and is a
\* restart point, one restart per entry.
C15_IndexRestartInterval ==
  /\ rep.index_block_options.block_restart_interval = 1
  /\ \A i \in 1..Len(IndexHeaders) :
        /\ ~IndexHeaders[i].overrun
        /\ IndexHeaders[i].shared = 0
        /\ rep.index_block.restarts_[i] = IndexHeaders[i].offset
  /\ Len(rep.index_block.restarts_) = Max(1, Len(IndexHeaders))

\* Two index entries whose keys have a common prefix were added, the second
\* after ChangeOptions set a restart interval of 16.
C15_Witness ==
  /\ obs.changes = 1
  /\ rep.options.block_restart_interval = 16
  /\ Len(obs.index_adds) = 2
  /\ CommonPrefix(obs.index_adds[1].key, obs.index_adds[2].key, 0) > 0
  /\ Len(IndexHeaders) = 2

(***************************************************************************)
(* A BlockBuilder on its own: one builder, constructed with a restart      *)
(* interval, to which ascending keys are added and which is finished and   *)
(* reset.  rep holds the builder and its options, obs the pairs added      *)
(* since the last Reset; file is not used.                                 *)
(***************************************************************************)
MaxBlockEntries == 4

BlockIntervals == { 1, 2, 3, 16 }

BlockKeys ==
  { <<97>>, <<97, 98>>, <<97, 98, 99>>, <<97, 98, 100>>, <<97, 99>>, <<98>> }

\* Values of 0, 1 and 130 bytes; the last needs a two-byte length.
BlockValues == { <<>>, Fill(118, 1), Fill(118, 130) }

BlockInit ==
  /\ \E interval \in BlockIntervals :
        rep = [options |-> MakeOptions(4096, interval, "kNoCompression", NoPolicy),
               block |-> NewBlockBuilder]
  /\ file = [size |-> 0, log |-> <<>>]
  /\ obs = [added |-> <<>>]

\* Add(key, value), called as its assertions require.
BlockAddAction ==
  /\ Len(obs.added) < MaxBlockEntries
  /\ \E key \in BlockKeys, value \in BlockValues :
        /\ BlockBuilder_AddAsserts(rep.block, rep.options, key)
        /\ rep' = [rep EXCEPT !.block = BlockBuilder_Add(@, rep.options, key, value)]
        /\ obs' = [obs EXCEPT !.added = Append(@, [key |-> key, value |-> value])]
  /\ UNCHANGED file

\* Finish()
BlockFinishAction ==
  /\ ~rep.block.finished_
  /\ rep' = [rep EXCEPT !.block = BlockBuilder_Finish(@)]
  /\ UNCHANGED <<file, obs>>

\* Reset()
BlockResetAction ==
  /\ rep' = [rep EXCEPT !.block = BlockBuilder_Reset(@)]
  /\ obs' = [obs EXCEPT !.added = <<>>]
  /\ UNCHANGED file

BlockNext == BlockAddAction \/ BlockFinishAction \/ BlockResetAction

BlockSpec == BlockInit /\ [][BlockNext]_vars

\* The block as Finish() returns it.
FinishedBlock ==
  Flat(IF rep.block.finished_ THEN rep.block.buffer_
       ELSE BlockBuilder_Finish(rep.block).buffer_)

\* C16: the entries of a block, decoded in order (key = the first shared
\* bytes of the key decoded before, then the stored suffix), are the
\* (key, value) pairs added since the last Reset, in the order added.
C16_BlockRoundTrip ==
  /\ Len(BlockEntries(FinishedBlock)) = Len(obs.added)
  /\ \A i \in 1..Len(obs.added) :
        /\ ~BlockEntries(FinishedBlock)[i].corruption
        /\ ~BlockEntries(FinishedBlock)[i].overrun
        /\ BlockEntries(FinishedBlock)[i].key = obs.added[i].key
        /\ BlockEntries(FinishedBlock)[i].value = Flat(obs.added[i].value)

\* A finished block of four entries, one of them after a restart point with
\* a key that has a prefix in common with the key before, one with a
\* 130-byte value.
C16_Witness ==
  /\ rep.block.finished_
  /\ Len(obs.added) = 4
  /\ rep.options.block_restart_interval = 3
  /\ CommonPrefix(obs.added[3].key, obs.added[4].key, 0) = 2
  /\ \E i \in 1..4 : Size(obs.added[i].value) = 130

\* The entries in the builder's buffer.
BlockHeaders ==
  EntryHeaders(FinishedBlock, 0, RestartOffset(FinishedBlock), 0)

\* C17: with restart interval R, entry i (from 0) has shared = 0 when i is
\* a multiple of R and else shares the longest common prefix of its key and
\* the key before; after n >= 1 entries there are ceil(n / R) restarts, and
\* restart j is the offset at which entry j * R begins.
C17_RestartPoints ==
  LET R == rep.options.block_restart_interval
      n == Len(obs.added)
  IN  /\ Len(BlockHeaders) = n
      /\ \A i \in 0..(n - 1) :
            /\ ~BlockHeaders[i + 1].overrun
            /\ BlockHeaders[i + 1].shared
                 = (IF i % R = 0 THEN 0
                    ELSE CommonPrefix(obs.added[i].key, obs.added[i + 1].key, 0))
      /\ n >= 1 =>
            /\ Len(rep.block.restarts_) = CeilDiv(n, R)
            /\ NumRestarts(FinishedBlock) = CeilDiv(n, R)
            /\ rep.block.restarts_[1] = 0
            /\ \A j \in 0..(CeilDiv(n, R) - 1) :
                  /\ rep.block.restarts_[j + 1] = BlockHeaders[j * R + 1].offset
                  /\ DecodeFixed32(FinishedBlock,
                                   RestartOffset(FinishedBlock) + 4 * j + 1)
                       = BlockHeaders[j * R + 1].offset

\* Four entries under restart interval 2: the third is a restart point and
\* has a prefix in common with the second, the second shares one byte with
\* the first.
C17_Witness ==
  /\ Len(obs.added) = 4
  /\ rep.options.block_restart_interval = 2
  /\ Len(rep.block.restarts_) = 2
  /\ rep.block.restarts_[2] > 0
  /\ CommonPrefix(obs.added[1].key, obs.added[2].key, 0) = 1
  /\ CommonPrefix(obs.added[2].key, obs.added[3].key, 0) = 2

(***************************************************************************)
(* A BloomFilterPolicy on its own: a policy constructed with bits_per_key  *)
(* and a destination string to which CreateFilter appends one filter after *)
(* the other.  rep holds the policy, the keys collected for the next       *)
(* filter and dst; obs where each filter lies in dst and its keys, and     *)
(* the fault of the CreateFilter call that did not return, after which     *)
(* nothing is called.                                                      *)
(***************************************************************************)
MaxBloomKeys == 3

MaxBloomFilters == 2

\* Negative values too: the constructor takes any int.
BloomBitsPerKey == { -3, -1, 0, 1, 10, 50 }

\* The empty key, a one-byte key and one longer than a hash word.
BloomKeys == { <<>>, <<97>>, <<104, 101, 108, 108, 111>> }

\* What dst holds before the first CreateFilter.
BloomDsts == { <<>>, <<255, 7>> }

BloomInit ==
  /\ \E bits_per_key \in BloomBitsPerKey, dst \in BloomDsts :
        \E k \in BloomK(bits_per_key) :
           rep = [policy |-> [bits_per_key |-> bits_per_key, null |-> FALSE,
                              k_ |-> k],
                  keys |-> <<>>,
                  dst |-> dst]
  /\ file = [size |-> 0, log |-> <<>>]
  /\ obs = [filters |-> <<>>, fault |-> "none"]

\* The caller collects one more key for the next filter.
BloomAddKeyAction ==
  /\ obs.fault = "none"
  /\ Len(rep.keys) < MaxBloomKeys
  /\ Len(obs.filters) < MaxBloomFilters
  /\ \E key \in BloomKeys : rep' = [rep EXCEPT !.keys = Append(@, key)]
  /\ UNCHANGED <<file, obs>>

\* CreateFilter(keys, n, &dst)
BloomCreateFilterAction ==
  /\ obs.fault = "none"
  /\ Len(obs.filters) < MaxBloomFilters
  /\ LET created == CreateFilter(rep.policy, rep.keys, rep.dst) IN
       IF created.fault = "none"
       THEN /\ rep' = [rep EXCEPT !.dst = created.dst, !.keys = <<>>]
            /\ obs' = [obs EXCEPT !.filters =
                          Append(@, [start |-> Len(rep.dst),
                                     limit |-> Len(created.dst),
                                     keys |-> rep.keys])]
       ELSE /\ rep' = [rep EXCEPT !.dst = created.dst]
            /\ obs' = [obs EXCEPT !.fault = created.fault]
  /\ UNCHANGED file

BloomNext == BloomAddKeyAction \/ BloomCreateFilterAction

BloomSpec == BloomInit /\ [][BloomNext]_vars

\* The bytes of the i-th filter created.
FilterBytes(i) == SubSeq(rep.dst, obs.filters[i].start + 1, obs.filters[i].limit)

\* C18 (as stated): whatever bits_per_key is, CreateFilter produces a filter
\* f for every set of keys, also when it appends f to a destination that
\* was not empty, and KeyMayMatch(k, f) is true for every key k of the set.
C18_BloomNoFalseNegatives ==
  /\ obs.fault = "none"
  /\ \A i \in 1..Len(obs.filters) :
        \A j \in 1..Len(obs.filters[i].keys) :
           Bloom_KeyMayMatch(obs.filters[i].keys[j], FilterBytes(i))

\* C18 (amended): for every bits_per_key >= 0, CreateFilter produces a
\* filter f for every set of keys, also when it appends f to a destination
\* that was not empty, and KeyMayMatch(k, f) is true for every key k of the
\* set.
C18_BloomNoFalseNegativesNonNegative ==
  rep.policy.bits_per_key >= 0 =>
    /\ obs.fault = "none"
    /\ \A i \in 1..Len(obs.filters) :
          \A j \in 1..Len(obs.filters[i].keys) :
             Bloom_KeyMayMatch(obs.filters[i].keys[j], FilterBytes(i))

\* A filter for two keys lies behind another filter in dst, and a key it
\* was not created for does not match it.
C18_Witness ==
  /\ rep.policy.bits_per_key >= 0
  /\ Len(obs.filters) = 2
  /\ obs.filters[2].start > 2
  /\ Len(obs.filters[2].keys) = 2
  /\ \E key \in BloomKeys : ~Bloom_KeyMayMatch(key, FilterBytes(2))

\* The 2 KiB windows of the written filter block in which no data block
\* starts.
SkippedWindows ==
  { w \in 0..(WrittenFilterReader.num_ - 1) :
       \A i \in 1..Len(DataBlocks) : FilterIndex(DataBlocks[i].offset) # w }

\* The length of filter `index` of the written filter block, from its
\* offset array.
FilterLength(index) ==
  DecodeFixed32(WrittenFilterReader.contents,
                WrittenFilterReader.offset_ + index * 4 + 4 + 1)
    - DecodeFixed32(WrittenFilterReader.contents,
                    WrittenFilterReader.offset_ + index * 4 + 1)

\* C19: for each 2 KiB window the data blocks skip, the filter block holds
\* one zero-length filter, and the reader's KeyMayMatch is false for every
\* key at a block offset of such a window.
C19_SkippedWindows ==
  BlocksOfKind("filter") # <<>> =>
    /\ WrittenFilterReader.has_data
    /\ \A i \in 1..Len(DataBlocks) :
          FilterIndex(DataBlocks[i].offset) < WrittenFilterReader.num_
    /\ \A w \in SkippedWindows :
          /\ FilterLength(w) = 0
          /\ \A key \in Keys, at \in { 0, 1, kFilterBase - 1 } :
                \A outcome \in Reader_KeyMayMatch(WrittenFilterReader,
                                                  w * kFilterBase + at, key) :
                   ~outcome.result

\* The written filter block has a filter for a data block that starts in
\* window 4 or later, behind a skipped window and a first data block.
C19_Witness ==
  /\ BlocksOfKind("filter") # <<>>
  /\ Len(DataBlocks) >= 2
  /\ \E w \in SkippedWindows :
        /\ FilterIndex(DataBlocks[1].offset) < w
        /\ w < FilterIndex(DataBlocks[2].offset)
        /\ FilterLength(FilterIndex(DataBlocks[2].offset)) > 0

\* Finish was called on a builder that received no Add and whose sink never
\* failed: it returned, or it never did (the crash in the meta-index step).
EmptyFinish ==
  /\ rep.closed
  /\ FinishReturned \/ obs.crashed
  /\ rep.num_entries = 0
  /\ \A i \in 1..Len(file.log) : file.log[i].ok

\* What Finish leaves of a table without entries; `filter` says whether a
\* filter policy is configured.
EmptyTable(filter) ==
  /\ FinishedOK
  /\ DataBlocks = <<>>
  /\ Len(BlocksOfKind("index")) = 1
  /\ obs.index_adds = <<>>
  /\ BlocksOfKind("index")[1].type = 0 => WrittenIndexEntries = <<>>
  /\ Len(BlocksOfKind("metaindex")) = 1
  /\ IF filter
     THEN /\ Len(BlocksOfKind("filter")) = 1
          /\ Flat(BlocksOfKind("filter")[1].contents)
               = <<0, 0, 0, 0, kFilterBaseLg>>
     ELSE /\ BlocksOfKind("filter") = <<>>
          /\ BlocksOfKind("metaindex")[1].type = 0
               => BlockEntries(Flat(BlocksOfKind("metaindex")[1].contents)) = <<>>

\* C20: Finish on a builder that received no Add, the sink never failing,
\* returns OK, writes no data block and an index block without entries,
\* and NumEntries() is 0; without a filter policy there is no filter block
\* and the meta-index block is empty, with a filter policy the filter
\* block is the 4-byte array start 0 and the byte 11.
C20_EmptyTable ==
  EmptyFinish => EmptyTable(~rep.options.filter_policy.null)

\* C20 for builders whose options have a filter policy exactly when they had
\* one at construction.
C20_EmptyTableAsConstructed ==
  EmptyFinish /\ rep.has_filter = ~rep.options.filter_policy.null
    => EmptyTable(rep.has_filter)

\* Finish returned OK on a builder with a filter policy and no entries,
\* after a Flush that had nothing to write.
C20_Witness ==
  /\ EmptyFinish
  /\ FinishedOK
  /\ rep.has_filter
  /\ ~rep.options.filter_policy.null

(***************************************************************************)
(* The TableBuilder with the compressor watched: the same operations, and  *)
(* each written block is recorded with the slice WriteBlock got from       *)
(* Finish and with what the compressor made of it.                         *)
(***************************************************************************)
Watched(s) == [s EXCEPT !.obs.watch = TRUE]

\* The builder is constructed with options that ask for compression;
\* ChangeOptions may turn it off and on again.
CompressInit ==
  \E opt \in { o \in OptionsSet : o.compression = "kSnappyCompression" } :
     /\ rep = Watched(Construct(opt)).r
     /\ file = Watched(Construct(opt)).file
     /\ obs = Watched(Construct(opt)).obs

CompressSpec == CompressInit /\ [][Next]_vars

\* The blocks written by WriteBlock (all but the filter block), in order.
BuiltBlocks == SelectSeq(obs.blocks, LAMBDA b : b.kind # "filter")

\* The compressor succeeded on write w and saved more than an eighth.
SavesEnough(w) ==
  /\ w.compressed.ok
  /\ Size(w.compressed.out) < Size(w.raw) - (Size(w.raw) \div 8)

\* C21: with snappy enabled WriteBlock stores the compressed bytes with
\* type 1 only when compression succeeded and the compressed length is
\* below raw - floor(raw / 8); in every other case, the length exactly at
\* that threshold included, it stores the raw bytes with type 0; the
\* handle's size is the length of the bytes stored.
C21_CompressionThreshold ==
  /\ \A i \in 1..Len(BuiltBlocks) :
        IF BuiltBlocks[i].write.compression = "kSnappyCompression"
           /\ SavesEnough(BuiltBlocks[i].write)
        THEN /\ BuiltBlocks[i].type = 1
             /\ BuiltBlocks[i].contents = BuiltBlocks[i].write.compressed.out
        ELSE /\ BuiltBlocks[i].type = 0
             /\ BuiltBlocks[i].contents = BuiltBlocks[i].write.raw
  /\ \A i \in 1..Len(obs.index_adds) :
        obs.index_adds[i].handle.size = Size(DataBlocks[i].contents)

\* One run stored a data block compressed and another raw, the compressor
\* having shrunk the second to exactly raw - floor(raw / 8) bytes; both have
\* their index entries.
C21_Witness ==
  /\ obs.watch
  /\ Len(obs.index_adds) >= 2
  /\ \E i, j \in 1..Len(DataBlocks) :
        /\ DataBlocks[i].type = 1
        /\ DataBlocks[j].type = 0
        /\ DataBlocks[j].write.compressed.ok
        /\ Size(DataBlocks[j].write.compressed.out)
             = Size(DataBlocks[j].write.raw) - (Size(DataBlocks[j].write.raw) \div 8)
        /\ Size(DataBlocks[j].write.raw) % 8 # 0

\* C22: the calls the TableBuilder makes on its FilterBlockBuilder are a
\* prefix of a word of (StartBlock AddKey*)* Finish: the first call is
\* StartBlock(0), Finish is called at most once and nothing is called after
\* it.  Without a filter block builder no call is made.
C22_FilterCallOrder ==
  /\ rep.has_filter =>
        /\ obs.filter_calls # <<>>
        /\ obs.filter_calls[1] = "StartBlock"
        /\ obs.start_block[1].arg = 0
  /\ ~rep.has_filter => obs.filter_calls = <<>>
  /\ \A i \in 1..Len(obs.filter_calls) :
        obs.filter_calls[i] = "Finish" => i = Len(obs.filter_calls)

\* StartBlock, AddKey, AddKey, StartBlock, AddKey, ..., Finish.
C22_Witness ==
  /\ Len(obs.filter_calls) >= 6
  /\ SubSeq(obs.filter_calls, 1, 5)
       = <<"StartBlock", "AddKey", "AddKey", "StartBlock", "AddKey">>
  /\ LastOf(obs.filter_calls) = "Finish"

\* C23: the assertion counter_ <= block_restart_interval at the head of
\* BlockBuilder::Add holds on every Add reachable through the TableBuilder,
\* an Add to a non-empty data block after ChangeOptions set a smaller
\* block_restart_interval included.
C23_RestartAssertion ==
  "BlockBuilder::Add: counter_ <= block_restart_interval" \notin obs.failed

\* C23 for builders whose restart interval was not made smaller.
C23_RestartAssertionUnchanged ==
  (\A opt \in OptionsSet :
      rep.options.block_restart_interval >= opt.block_restart_interval)
    => C23_RestartAssertion

\* The keys of data blocks 1..n that start in window w, in the order added.
RECURSIVE WindowKeys(_, _)
WindowKeys(w, n) ==
  IF n = 0 THEN <<>>
  ELSE WindowKeys(w, n - 1)
       \o (IF FilterIndex(DataBlocks[n].offset) = w
           THEN DataBlocks[n].keys ELSE <<>>)

\* The bytes of filter `index` of the written filter block.
FilterOf(index) ==
  SubSeq(WrittenFilterReader.contents,
         DecodeFixed32(WrittenFilterReader.contents,
                       WrittenFilterReader.offset_ + index * 4 + 1) + 1,
         DecodeFixed32(WrittenFilterReader.contents,
                       WrittenFilterReader.offset_ + index * 4 + 4 + 1))

\* C24: filter i of the finished filter block is built from exactly the
\* keys of the data blocks whose file offset lies in
\* [i * 2048, (i + 1) * 2048): blocks that start in one window share one
\* filter, and no key of a block of another window is in it.
C24_FilterPerWindow ==
  BlocksOfKind("filter") # <<>> =>
    /\ \A i \in 1..Len(DataBlocks) :
          FilterIndex(DataBlocks[i].offset) \in 0..(WrittenFilterReader.num_ - 1)
    /\ \A w \in 0..(WrittenFilterReader.num_ - 1) :
          FilterOf(w)
            = (IF WindowKeys(w, Len(DataBlocks)) = <<>> THEN <<>>
               ELSE CreateFilter(rep.filter_block.policy_,
                                 WindowKeys(w, Len(DataBlocks)), <<>>).dst)

\* Two data blocks with different keys start in window 0 and share filter
\* 0, which is not the filter of the first block's keys alone; a third
\* block starts in a later window.
C24_Witness ==
  /\ BlocksOfKind("filter") # <<>>
  /\ Len(DataBlocks) = 3
  /\ FilterIndex(DataBlocks[1].offset) = 0
  /\ FilterIndex(DataBlocks[2].offset) = 0
  /\ FilterIndex(DataBlocks[3].offset) > 0
  /\ FilterOf(0)
       # CreateFilter(rep.filter_block.policy_, DataBlocks[1].keys, <<>>).dst
  /\ FilterOf(FilterIndex(DataBlocks[3].offset)) # <<>>

\* C25: the assertion of StartBlock, floor(block_offset / 2048) >= number
\* of filters emitted, holds on every call the TableBuilder makes, and when
\* StartBlock(off) returns the number of filters emitted is floor(off / 2048).
C25_StartBlockFilters ==
  /\ "StartBlock: filter_index >= filter_offsets_.size()" \notin obs.failed
  /\ \A i \in 1..Len(obs.start_block) :
        obs.start_block[i].filters = obs.start_block[i].arg \div 2048

\* StartBlock was called with an offset in window 2 or later, and again
\* later with an offset in a later window still.
C25_Witness ==
  \E i, j \in 1..Len(obs.start_block) :
     /\ i < j
     /\ obs.start_block[i].arg % 2048 # 0
     /\ obs.start_block[i].filters >= 2
     /\ obs.start_block[j].filters > obs.start_block[i].filters

\* Where in the file each accepted data block payload of `log` begins and
\* how long it is, `at` bytes having been accepted before `log`.
RECURSIVE DataPayloads(_, _)
DataPayloads(log, at) ==
  IF log = <<>> THEN <<>>
  ELSE (IF log[1].op = "Append" /\ log[1].ok /\ log[1].what = "data"
        THEN << [offset |-> at, size |-> log[1].n] >> ELSE <<>>)
       \o DataPayloads(Tail(log),
                       at + (IF log[1].op = "Append" /\ log[1].ok
                             THEN log[1].n ELSE 0))

\* C26: the handle in the index entry of data block i is (offset_i, size_i),
\* the file offset at which the block's payload begins and the payload's
\* length without the trailer; offset_1 = 0 and
\* offset_(i+1) = offset_i + size_i + 5.  The handle of the last data block
\* survives the filter and meta-index writes of Finish.
C26_IndexHandles ==
  /\ Len(obs.index_adds) <= Len(DataPayloads(file.log, 0))
  /\ \A i \in 1..Len(obs.index_adds) :
        /\ obs.index_adds[i].handle = DataPayloads(file.log, 0)[i]
        /\ i = 1 => obs.index_adds[i].handle.offset = 0
        /\ i > 1 => obs.index_adds[i].handle.offset
                      = obs.index_adds[i - 1].handle.offset
                          + obs.index_adds[i - 1].handle.size + kBlockTrailerSize
  /\ FinishedOK /\ BlocksOfKind("index")[1].type = 0 =>
        \A i \in 1..Len(obs.index_adds) :
           BlockHandle_DecodeFrom(WrittenIndexEntries[i].value)
             = DataPayloads(file.log, 0)[i]

\* Finish wrote a filter block and a meta-index block and then added the
\* index entry of the second data block.
C26_Witness ==
  /\ FinishedOK
  /\ BlocksOfKind("filter") # <<>>
  /\ BlocksOfKind("index")[1].type = 0
  /\ Len(obs.index_adds) = 2
  /\ obs.index_adds[2].at = "Finish"
  /\ obs.index_adds[2].handle.offset > 0
  /\ obs.index_adds[2].handle.offset < BlocksOfKind("filter")[1].offset

\* What a Flush that has nothing to write leaves alone: everything.
NothingFlushed ==
  /\ rep' = rep
  /\ file' = file
  /\ obs'.start_block = obs.start_block
  /\ obs'.filter_calls = obs.filter_calls
  /\ obs'.blocks = obs.blocks
  /\ obs'.failed = {}

\* C27: Flush called while the data block builder is empty, before any Add
\* or directly after a flush, is a no-op: nothing is appended, neither the
\* sink's Flush nor StartBlock is called, and offset, status,
\* pending_index_entry and pending_handle stay as they are.
C27_EmptyFlush ==
  [][BlockBuilder_empty(rep.data_block) /\ FlushAction => NothingFlushed]_vars

\* A Flush ran on a builder without entries (no other operation returns
\* nothing and leaves an open builder with num_entries = 0 behind a
\* ChangeOptions).
C27_Witness ==
  /\ Open
  /\ obs.changes = 1
  /\ obs.returned.op = "none"
  /\ rep.num_entries = 0
  /\ BlockBuilder_empty(rep.data_block)
  /\ file.log = <<>>

\* The estimate Add reads after it has added (key, value) to the data block.
EstimateAfter(key, value) ==
  BlockBuilder_CurrentSizeEstimate(
    BlockBuilder_Add(rep.data_block, rep.options, key, value))

\* The step is Add(key, value), entered with status OK, in environment env.
AddStep(key, value, env) ==
  /\ Open
  /\ rep.status = "OK"
  /\ Ascending(key)
  /\ Leave(CountedAdd(Add(Enter(env), key, value)))
  /\ obs'.failed = {}

\* C28: after every Add that returns with status OK the data block builder
\* is empty or its CurrentSizeEstimate() is below options.block_size, and
\* Add flushes (the block is written to the sink and the builder reset)
\* exactly when the estimate after adding the entry is >= block_size.  An
\* Add that was entered with status OK and returned is a step that counts
\* one more entry; its key is last_key afterwards.
C28_FlushWhenFull ==
  [][rep'.num_entries = rep.num_entries + 1 =>
       /\ rep'.status = "OK" =>
            \/ BlockBuilder_empty(rep'.data_block)
            \/ BlockBuilder_CurrentSizeEstimate(rep'.data_block)
                 < rep'.options.block_size
       /\ \A value \in Values, env \in Envs("Add") :
            AddStep(rep'.last_key, value, env) =>
              IF EstimateAfter(rep'.last_key, value) >= rep.options.block_size
              THEN /\ BlockBuilder_empty(rep'.data_block)
                   /\ file' # file
              ELSE /\ ~BlockBuilder_empty(rep'.data_block)
                   /\ file' = file
                   /\ BlockBuilder_CurrentSizeEstimate(rep'.data_block)
                        = EstimateAfter(rep'.last_key, value)]_vars

\* Add("ab", one byte) made the estimate exactly block_size = 14 and
\* flushed: a 14 byte block and its trailer are in the file.
C28_Witness ==
  /\ Open
  /\ obs.changes = 0
  /\ rep.options.block_size = 14
  /\ rep.status = "OK"
  /\ rep.num_entries = 1
  /\ rep.last_key = <<97, 98>>
  /\ BlockBuilder_empty(rep.data_block)
  /\ rep.offset = 19

\* The step is one of Flush, Finish, Abandon and ChangeOptions.
OtherStep ==
  FlushAction \/ FinishAction \/ AbandonAction \/ ChangeOptionsAction

\* C29: NumEntries() is the number of Add calls made while the status was
\* OK: it changes only in an Add entered with status OK, by exactly 1; an
\* Add made after an error, and Flush, Finish, Abandon and ChangeOptions,
\* leave it as it is.
C29_NumEntries ==
  [][/\ NumEntries(rep') = obs'.adds_ok
     /\ obs'.adds_ok = obs.adds_ok => NumEntries(rep') = NumEntries(rep)
     /\ NumEntries(rep') # NumEntries(rep) =>
          /\ NumEntries(rep') = NumEntries(rep) + 1
          /\ rep.status = "OK"
          /\ \E value \in Values, env \in Envs("Add") :
               AddStep(rep'.last_key, value, env)
          /\ ~OtherStep]_vars

\* Two Adds were counted, the status became an error, the options were
\* changed and the builder was closed: the count is still two.
C29_Witness ==
  /\ rep.closed
  /\ rep.status # "OK"
  /\ obs.changes > 0
  /\ obs.adds_ok = 2
  /\ NumEntries(rep) = 2
  /\ obs.failed = {}

(***************************************************************************)
(* FilterBlockReader alone, over filter block contents that need not come  *)
(* from a FilterBlockBuilder: rep.reader is the reader constructed over    *)
(* the contents, obs the last lookup and what it returned.                 *)
(***************************************************************************)
\* The filter area: empty, or the Bloom filter of the key "a".
ReaderData ==
  { <<>>, GenerateFilter(AddKey(NewFilterBlockBuilder(BloomPolicy), <<97>>)).result_ }

\* Stored filter offsets (0, 5, 9 and 20), consistent with the filter area
\* and not.
ReaderOffsetArrays ==
  { <<>> } \cup { <<a>> : a \in { 0, 5, 9, 20 } }
           \cup { <<a, b>> : a \in { 0, 5, 9, 20 }, b \in { 0, 5, 9, 20 } }

\* Stored values of base_lg: the builder's, 0, and bytes that give a shift
\* count of 64 or more (139 is read as a negative char).
ReaderBaseLgs == { 0, kFilterBaseLg, 64, 75, 139 }

\* The layout of a filter block: filters, offsets, array start, base_lg.
ReaderBlock(data, offsets, array_start, base_lg) ==
  PutFixed32(data \o OffsetArray(offsets), array_start) \o <<base_lg>>

\* Filter block contents: too short, with an array start beyond the
\* contents, and with an offset array where the filter area ends.
ReaderContents ==
  { <<>>, <<0, 0, 0, kFilterBaseLg>> } \cup
  { ReaderBlock(data, offsets, Len(data), base_lg) :
      data \in ReaderData, offsets \in ReaderOffsetArrays,
      base_lg \in ReaderBaseLgs } \cup
  { ReaderBlock(data, offsets, 200, base_lg) :
      data \in ReaderData, offsets \in ReaderOffsetArrays,
      base_lg \in ReaderBaseLgs }

ReaderInit ==
  /\ \E contents \in ReaderContents :
        rep = [reader |-> FilterBlockReader(BloomPolicy, contents)]
  /\ file = [size |-> 0, log |-> <<>>]
  /\ obs = [asked |-> FALSE, block_offset |-> 0, key |-> <<>>,
            index |-> 0, result |-> TRUE]

ReaderKeyMayMatchAction ==
  /\ \E block_offset \in { 0, 1, 2048, 4096 }, key \in Keys :
        \E outcome \in Reader_KeyMayMatch(rep.reader, block_offset, key) :
           obs' = [asked |-> TRUE, block_offset |-> block_offset, key |-> key,
                   index |-> outcome.index, result |-> outcome.result]
  /\ UNCHANGED <<rep, file>>

ReaderNext == ReaderKeyMayMatchAction

ReaderSpec == ReaderInit /\ [][ReaderNext]_vars

\* The stored start of the offset array, the number of filters it gives,
\* and the bounds stored for an index, read off the contents.
ArrayStart(contents) == DecodeFixed32(contents, Len(contents) - 4)

StoredFilters(contents) == (Len(contents) - 5 - ArrayStart(contents)) \div 4

LookupStart(contents, index) ==
  DecodeFixed32(contents, ArrayStart(contents) + index * 4 + 1)

LookupLimit(contents, index) ==
  DecodeFixed32(contents, ArrayStart(contents) + index * 4 + 5)

\* The contents are too short, the array start is beyond them, or the index
\* (block_offset >> base_lg as the lookup computed it) selects no stored
\* filter.
OutOfRange(contents, index) ==
  \/ Len(contents) < 5
  \/ ArrayStart(contents) > Len(contents) - 5
  \/ index >= StoredFilters(contents)

\* limit lies beyond the start of the offset array.
LimitBeyond(contents, index) ==
  LookupLimit(contents, index) > ArrayStart(contents)

\* The lookup shifted by a count the language defines (below 64).
DefinedShift ==
  /\ Len(rep.reader.contents) >= 5
  /\ rep.reader.contents[Len(rep.reader.contents)] < 64

\* C30 (as stated): a lookup that is out of range, or whose decoded bounds
\* are inconsistent (start > limit, or limit beyond the offset array),
\* returns true for every key.
C30_PotentialMatch ==
  (/\ obs.asked
   /\ \/ OutOfRange(rep.reader.contents, obs.index)
      \/ LookupStart(rep.reader.contents, obs.index)
           > LookupLimit(rep.reader.contents, obs.index)
      \/ LimitBeyond(rep.reader.contents, obs.index))
  => obs.result

\* C30 (amended): a lookup that is out of range, or whose decoded bounds
\* have start > limit, or start < limit with limit beyond the offset array,
\* returns true for every key; with start = limit beyond the offset array
\* it returns false.  The index of the lookup is block_offset >> base_lg as
\* the lookup computed it: block_offset divided by 2^base_lg when the shift
\* is defined.
C30_PotentialMatchUnlessEmpty ==
  obs.asked =>
    /\ DefinedShift =>
         obs.index = obs.block_offset
                       \div (2 ^ rep.reader.contents[Len(rep.reader.contents)])
    /\ (\/ OutOfRange(rep.reader.contents, obs.index)
        \/ LookupStart(rep.reader.contents, obs.index)
             > LookupLimit(rep.reader.contents, obs.index)
        \/ /\ LookupStart(rep.reader.contents, obs.index)
                < LookupLimit(rep.reader.contents, obs.index)
           /\ LimitBeyond(rep.reader.contents, obs.index))
       => obs.result
    /\ (/\ ~OutOfRange(rep.reader.contents, obs.index)
        /\ LookupStart(rep.reader.contents, obs.index)
             = LookupLimit(rep.reader.contents, obs.index)
        /\ LimitBeyond(rep.reader.contents, obs.index))
       => ~obs.result

\* A lookup found start < limit with limit beyond the offset array, in a
\* block whose filter area holds a filter, and answered true.
C30_Witness ==
  /\ obs.asked
  /\ ~OutOfRange(rep.reader.contents, obs.index)
  /\ ArrayStart(rep.reader.contents) = 9
  /\ LookupStart(rep.reader.contents, obs.index)
       < LookupLimit(rep.reader.contents, obs.index)
  /\ LimitBeyond(rep.reader.contents, obs.index)
  /\ obs.result

(***************************************************************************)
(* FilterBlockBuilder alone, with Bloom policies of several bits_per_key:  *)
(* every GenerateFilter with keys calls CreateFilter on result_, which     *)
(* holds the filters made before.  rep.filter_block is the builder,        *)
(* rep.finished whether Finish has returned; obs.started whether           *)
(* StartBlock was called, obs.keys the number of AddKey calls.  Nothing is *)
(* called after a CreateFilter call ended with a fault.                    *)
(***************************************************************************)
MaxFilterKeys == 3

MaxFilterWindows == 2

FilterInit ==
  /\ \E bits_per_key \in BloomBitsPerKey :
        \E k \in BloomK(bits_per_key) :
           rep = [filter_block |->
                    NewFilterBlockBuilder([null |-> FALSE,
                                           bits_per_key |-> bits_per_key,
                                           k_ |-> k]),
                  finished |-> FALSE]
  /\ file = [size |-> 0, log |-> <<>>]
  /\ obs = [started |-> FALSE, keys |-> 0]

\* StartBlock(block_offset), with offsets that keep its assertion.
FilterStartBlockAction ==
  /\ ~rep.finished
  /\ rep.filter_block.fault = "none"
  /\ \E block_offset \in { w * kFilterBase + w : w \in 0..MaxFilterWindows } :
        /\ StartBlockAsserts(rep.filter_block, block_offset)
        /\ rep' = [rep EXCEPT !.filter_block = StartBlock(@, block_offset)]
  /\ obs' = [obs EXCEPT !.started = TRUE]
  /\ UNCHANGED file

\* AddKey(key)
FilterAddKeyAction ==
  /\ ~rep.finished
  /\ rep.filter_block.fault = "none"
  /\ obs.started
  /\ obs.keys < MaxFilterKeys
  /\ \E key \in BloomKeys :
        rep' = [rep EXCEPT !.filter_block = AddKey(@, key)]
  /\ obs' = [obs EXCEPT !.keys = @ + 1]
  /\ UNCHANGED file

\* Finish()
FilterFinishAction ==
  /\ ~rep.finished
  /\ rep.filter_block.fault = "none"
  /\ rep' = [filter_block |-> FilterBlockBuilder_Finish(rep.filter_block),
             finished |->
               FilterBlockBuilder_Finish(rep.filter_block).fault = "none"]
  /\ UNCHANGED <<file, obs>>

FilterNext ==
  \/ FilterStartBlockAction
  \/ FilterAddKeyAction
  \/ FilterFinishAction

FilterSpec == FilterInit /\ [][FilterNext]_vars

\* Where the filters of result_ end: at its end, or, once Finish has
\* appended them, before the offset array, its start and base_lg.
FiltersEnd(r) ==
  IF r.finished
  THEN Len(r.filter_block.result_) - 4 * Len(r.filter_block.filter_offsets_) - 5
  ELSE Len(r.filter_block.result_)

\* before is what the first Len(before) elements of after are.
IsPrefix(before, after) ==
  /\ Len(before) <= Len(after)
  /\ SubSeq(after, 1, Len(before)) = before

\* The step has generated at least one filter.
Generated ==
  Len(rep'.filter_block.filter_offsets_) > Len(rep.filter_block.filter_offsets_)

\* C31 (as stated): CreateFilter only appends to its destination: the bytes
\* already in dst stay, and exactly ceil(max(64, n * bits_per_key) / 8) + 1
\* bytes are added, the last of them k; so in FilterBlockBuilder the
\* recorded filter offsets never decrease and no filter emitted earlier is
\* modified later.  A step that generates filters calls CreateFilter once,
\* with the keys collected and dst = result_, when there are keys, and
\* never otherwise.
C31_CreateFilterAppends ==
  [][/\ IsPrefix(rep.filter_block.result_, rep'.filter_block.result_)
     /\ IsPrefix(rep.filter_block.filter_offsets_,
                 rep'.filter_block.filter_offsets_)
     /\ NonDecreasing(rep'.filter_block.filter_offsets_)
     /\ \A i \in 1..Len(rep'.filter_block.filter_offsets_) :
           rep'.filter_block.filter_offsets_[i] <= FiltersEnd(rep')
     /\ Generated =>
          /\ rep'.filter_block.filter_offsets_
               [Len(rep.filter_block.filter_offsets_) + 1]
               = Len(rep.filter_block.result_)
          /\ IF rep.filter_block.start_ = <<>>
             THEN FiltersEnd(rep') = Len(rep.filter_block.result_)
             ELSE /\ FiltersEnd(rep') - Len(rep.filter_block.result_)
                       = CeilDiv(Max(64, Len(rep.filter_block.start_)
                                           * rep.filter_block.policy_.bits_per_key),
                                 8) + 1
                  /\ rep'.filter_block.result_[FiltersEnd(rep')]
                       = Max(1, Min(30, (rep.filter_block.policy_.bits_per_key
                                           * 69) \div 100))
     /\ ~Generated => FiltersEnd(rep') = Len(rep.filter_block.result_)]_vars

\* C31 (amended): with bits_per_key >= 0, CreateFilter only appends to its
\* destination: the bytes already in dst stay, and exactly
\* ceil(max(64, n * bits_per_key) / 8) + 1 bytes are added, the last of them
\* k; so in FilterBlockBuilder the recorded filter offsets never decrease
\* and no filter emitted earlier is modified later.
C31_CreateFilterAppendsNonNegative ==
  [][rep.filter_block.policy_.bits_per_key >= 0 =>
       /\ IsPrefix(rep.filter_block.result_, rep'.filter_block.result_)
       /\ IsPrefix(rep.filter_block.filter_offsets_,
                   rep'.filter_block.filter_offsets_)
       /\ NonDecreasing(rep'.filter_block.filter_offsets_)
       /\ \A i \in 1..Len(rep'.filter_block.filter_offsets_) :
             rep'.filter_block.filter_offsets_[i] <= FiltersEnd(rep')
       /\ Generated =>
            /\ rep'.filter_block.filter_offsets_
                 [Len(rep.filter_block.filter_offsets_) + 1]
                 = Len(rep.filter_block.result_)
            /\ IF rep.filter_block.start_ = <<>>
               THEN FiltersEnd(rep') = Len(rep.filter_block.result_)
               ELSE /\ FiltersEnd(rep') - Len(rep.filter_block.result_)
                         = CeilDiv(Max(64, Len(rep.filter_block.start_)
                                             * rep.filter_block.policy_.bits_per_key),
                                   8) + 1
                    /\ rep'.filter_block.result_[FiltersEnd(rep')]
                         = Max(1, Min(30, (rep.filter_block.policy_.bits_per_key
                                             * 69) \div 100))
       /\ ~Generated => FiltersEnd(rep') = Len(rep.filter_block.result_)]_vars

\* With 50 bits per key, a filter of two keys (ceil(100 / 8) + 1 = 14
\* bytes) was appended behind an earlier filter.
C31_Witness ==
  /\ ~rep.finished
  /\ rep.filter_block.policy_.bits_per_key = 50
  /\ Len(rep.filter_block.filter_offsets_) >= 2
  /\ rep.filter_block.filter_offsets_[Len(rep.filter_block.filter_offsets_)] > 0
  /\ Len(rep.filter_block.result_)
       - rep.filter_block.filter_offsets_[Len(rep.filter_block.filter_offsets_)]
       = 14

=============================================================================
